---- MODULE Spec2Model ----
(***************************************************************************)
(* State-machine model of app/handlers/charge_point.py, the OCPP 1.6       *)
(* central-system handler class ChargePoint: authorization resolution,    *)
(* transaction-id allocation and session lifecycle, meter-value ingestion, *)
(* the ChangeAvailability state machine and the detached follow-up tasks.  *)
(*                                                                         *)
(* The persistence store is the set of variables idTags, chargePoints,     *)
(* sessions, meterValues and connectorStatus: they hold COMMITTED rows.    *)
(* Every handler opens its own AsyncSessionLocal() unit of work; a unit of *)
(* work that raises is rolled back, so none of its writes reach the store.  *)
(* A handler whose store calls all concern one decision is one action; the *)
(* StartTransaction handler is split at its awaits (one action per store   *)
(* call) because its claims are about interleavings between those calls.   *)
(***************************************************************************)
EXTENDS Integers, Sequences, FiniteSets, TLC

(***************************************************************************)
(* Bounds of the model.                                                    *)
(***************************************************************************)
\* Number of values of the id range random.randint(100000, 999999) kept.
TxIdSpan == 2
\* The clock runs over 0..MaxTime.
MaxTime == 2
\* Number of handler invocations of StartTransaction that may be in flight.
NTasks == 2
\* Caps on the append-only logs and on the detached tasks kept.
MaxStatusRows == 2
MaxMeterRows == 2
MaxJobs == 2

(***************************************************************************)
(* Program constants.                                                      *)
(***************************************************************************)
\* random.randint(100000, 999999): lower end of the transaction-id range.
TxIdBase == 100000
\* energy_wh / 1000.0
WhPerKWh == 1000

TxIds == TxIdBase .. (TxIdBase + TxIdSpan - 1)
Times == 0 .. MaxTime
Tasks == 1 .. NTasks

\* None for a time, for an integer reading, for a string.
NoTime == -1
NoInt == -1
NoStr == ""

CPs == {"CP1", "CP2"}

VARIABLES
    now,              \* utc_now_naive()
    idTags,           \* table IdTag (provisioned externally): the credentials stored
    chargePoints,     \* table ChargePoint: id -> row or NoRow
    sessions,         \* table Session: sequence of rows, index = primary key
    meterValues,      \* table MeterValue: sequence of rows
    connectorStatus,  \* table ConnectorStatus: sequence of rows, in creation order
    jobs,             \* tasks spawned by asyncio.create_task, with the calls they made
    task,             \* StartTransaction invocations in flight, and their responses
    last              \* the step just taken: handler, inputs, response

vars == <<now, idTags, chargePoints, sessions, meterValues, connectorStatus,
          jobs, task, last>>

store == <<idTags, chargePoints, sessions, meterValues, connectorStatus>>

(***************************************************************************)
(* IdTag rows and _get_id_tag_info.                                        *)
(***************************************************************************)
TagStatuses == {"Accepted", "Blocked", "Expired", "Invalid", "ConcurrentTx"}
Expiries == {NoTime, 1}

\* A credential string is written <<status, expiry, parent>> after the row it
\* names, so that the stored fields of a row can be read off its credential.
ProvisionedTags ==
    ((TagStatuses \X Expiries \X {NoStr}) \ {<<"Accepted", 1, NoStr>>})
        \cup {<<"Accepted", 1, "PARENT">>}

\* The IdTag row of a credential.
IdTagRow(tag) ==
    [tag |-> tag, status |-> tag[1], expiry_date |-> tag[2], parent_id_tag |-> tag[3]]

\* No credential given (id_tag=None).
NoTag == <<NoStr, NoTime, NoStr>>

\* A credential that was never provisioned.
UnknownTag == <<"Unprovisioned", NoTime, NoStr>>
AllTags == ProvisionedTags \cup {UnknownTag}

\* datetime.isoformat(): the text of a time; NoIso is the key being absent.
isoformat(t) == <<"iso8601", t>>
NoIso == <<"absent", NoTime>>

\* A select that still finds a record removed from the table.
TagRecordsProvisioned(id_tag) ==
    { IdTagRow(tag) : tag \in { x \in ProvisionedTags : x = id_tag } }

\* select(IdTag).where(IdTag.tag == id_tag) ... scalar_one_or_none()
TagRecords(id_tag) == { IdTagRow(tag) : tag \in { x \in idTags : x = id_tag } }

\* A default that fails open.
FailOpenInfo == [status |-> "Accepted", expiryDate |-> NoIso, parentIdTag |-> NoStr]

\* id_tag_info = {"status": "Invalid"}
InvalidInfo == [status |-> "Invalid", expiryDate |-> NoIso, parentIdTag |-> NoStr]

\* The comparison tag_record.expiry_date < utc_now_naive(), turned around.
IsExpiredFlipped(r) == r.expiry_date # NoTime /\ r.expiry_date > now

\* The comparison tag_record.expiry_date < utc_now_naive().
IsExpired(r) == r.expiry_date # NoTime /\ r.expiry_date < now

\* _get_id_tag_info(id_tag); err is a persistence error raised by the lookup.
get_id_tag_info(id_tag, err) ==
    IF err THEN InvalidInfo
    ELSE IF TagRecords(id_tag) = {} THEN InvalidInfo
    ELSE LET r == CHOOSE x \in TagRecords(id_tag) : TRUE IN
         IF IsExpired(r)
         THEN [status |-> "Expired", expiryDate |-> isoformat(r.expiry_date),
               parentIdTag |-> NoStr]
         ELSE [status |-> r.status,
               expiryDate |-> IF r.expiry_date # NoTime
                              THEN isoformat(r.expiry_date) ELSE NoIso,
               parentIdTag |-> r.parent_id_tag]

(***************************************************************************)
(* Session rows.                                                           *)
(***************************************************************************)
\* A float as a reduced fraction n/d with d > 0; d = 0 is None.
RECURSIVE Gcd(_, _)
Gcd(a, b) == IF b = 0 THEN a ELSE Gcd(b, a % b)
Abs(x) == IF x < 0 THEN -x ELSE x
Rat(x, y) == LET g == Gcd(Abs(x), y) IN [n |-> x \div g, d |-> y \div g]
NoFloat == [n |-> 0, d |-> 0]

\* Session(transaction_id=..., status="Active", ...)
NewSession(transaction_id, cp, id_tag, connector_id, meter_start, start_time) ==
    [transaction_id |-> transaction_id, charge_point_id |-> cp, id_tag |-> id_tag,
     connector_id |-> connector_id, meter_start |-> meter_start,
     start_timestamp |-> start_time, status |-> "Active",
     meter_stop |-> NoInt, stop_timestamp |-> NoTime, stop_reason |-> NoStr,
     energy_consumed |-> NoFloat]

\* Primary keys of the rows select(Session).where(transaction_id == ...) finds.
SessionsWithTxId(transaction_id) ==
    { i \in DOMAIN sessions : sessions[i].transaction_id = transaction_id }

\* A store without the constraint.
NoUniqueConstraint(transaction_id) == FALSE

\* The store's unique constraint on Session.transaction_id, checked at commit.
UniqueViolation(transaction_id) == SessionsWithTxId(transaction_id) # {}

Init ==
    /\ now = 0
    /\ idTags = ProvisionedTags
    /\ chargePoints = [c \in CPs |-> [exists |-> FALSE, vendor |-> NoStr,
                                       is_online |-> FALSE, last_seen |-> NoTime,
                                       status |-> NoStr]]
    /\ sessions = <<>>
    /\ meterValues = <<>>
    /\ connectorStatus = <<>>
    /\ jobs = <<>>
    /\ task = [t \in Tasks |-> [pc |-> "idle"]]
    /\ last = [op |-> "Init"]

\* Time passes.
Tick ==
    /\ now < MaxTime
    /\ now' = now + 1
    /\ last' = [op |-> "Tick"]
    /\ UNCHANGED <<store, jobs, task>>

(***************************************************************************)
(* Authorize.                                                              *)
(***************************************************************************)
\* on_authorize(id_tag)
on_authorize(cp, id_tag, err) ==
    /\ last' = [op |-> "Authorize", cp |-> cp, id_tag |-> id_tag, err |-> err,
                id_tag_info |-> get_id_tag_info(id_tag, err)]
    /\ UNCHANGED <<now, store, jobs, task>>

(***************************************************************************)
(* StartTransaction, one action per store call.                            *)
(***************************************************************************)
\* parse_ocpp_timestamp(text): the time an ISO 8601 text denotes.
parse_ocpp_timestamp(text) == text[2]

\* The handler returns call_result.StartTransaction(id_tag_info, transaction_id).
StartReturn(t, inv, id_tag_info, transaction_id, created, raised) ==
    /\ task' = [task EXCEPT ![t] =
                   [pc |-> "returned", cp |-> inv.cp, id_tag |-> inv.id_tag,
                    connector_id |-> inv.connector_id,
                    resolved |-> inv.resolved,
                    id_tag_info |-> id_tag_info,
                    transaction_id |-> transaction_id,
                    created |-> created]]
    /\ last' = [op |-> "StartTransaction", returned |-> TRUE, task |-> t,
                raised |-> raised]

StartContinue(t, inv) ==
    /\ task' = [task EXCEPT ![t] = inv]
    /\ last' = [op |-> "StartTransaction", returned |-> FALSE, task |-> t,
                raised |-> FALSE]

\* The test with ConcurrentTx let through as well.
IsAcceptedOrConcurrent(id_tag_info) == id_tag_info.status \in {"Accepted", "ConcurrentTx"}

\* if id_tag_info["status"] == "Accepted":
IsAccepted(id_tag_info) == id_tag_info.status = "Accepted"

\* id_tag_info = await self._get_id_tag_info(id_tag); transaction_id = 0
on_start_transaction_resolve(t, cp, connector_id, id_tag, meter_start, timestamp, err) ==
    /\ task[t].pc \in {"idle", "returned"}
    /\ LET info == get_id_tag_info(id_tag, err)
           inv == [pc |-> "lookup", cp |-> cp, connector_id |-> connector_id,
                   id_tag |-> id_tag, meter_start |-> meter_start,
                   timestamp |-> timestamp, resolved |-> info,
                   transaction_id |-> 0]
       IN IF IsAccepted(info)
          THEN StartContinue(t, inv)
          ELSE StartReturn(t, inv, info, 0, FALSE, err)
    /\ UNCHANGED <<now, store, jobs>>

\* tag_record = select(IdTag).where(IdTag.tag == id_tag), in a new unit of work
on_start_transaction_lookup(t, err) ==
    /\ task[t].pc = "lookup"
    /\ LET inv == task[t] IN
       IF err \/ TagRecords(inv.id_tag) = {}
       THEN StartReturn(t, inv, InvalidInfo, 0, FALSE, err)
       ELSE StartContinue(t, [inv EXCEPT !.pc = "generate"])
    /\ UNCHANGED <<now, store, jobs>>

\* A loop that returns its first draw without the select.
GenerateWithoutCheck(drawn) == drawn

\* One turn of the loop of _generate_transaction_id: the drawn id if no Session
\* has it, 0 to draw again.
generate_transaction_id(drawn) ==
    IF SessionsWithTxId(drawn) = {} THEN drawn ELSE 0

\* transaction_id = await self._generate_transaction_id(session)
on_start_transaction_generate(t, drawn, err) ==
    /\ task[t].pc = "generate"
    /\ LET inv == task[t]
           got == generate_transaction_id(drawn)
       IN IF err THEN StartReturn(t, inv, InvalidInfo, 0, FALSE, TRUE)
          ELSE IF got = 0 THEN StartContinue(t, inv)
          ELSE StartContinue(t, [inv EXCEPT !.pc = "commit", !.transaction_id = got])
    /\ UNCHANGED <<now, store, jobs>>

\* What the except branch leaves in transaction_id when the commit raises.
TransactionIdAfterFailedCommit(transaction_id) == transaction_id

\* session.add(new_session); await session.commit()
on_start_transaction_commit(t, err) ==
    /\ task[t].pc = "commit"
    /\ LET inv == task[t]
           row == NewSession(inv.transaction_id, inv.cp, inv.id_tag, inv.connector_id,
                             inv.meter_start, parse_ocpp_timestamp(inv.timestamp))
       IN IF err \/ UniqueViolation(inv.transaction_id)
          THEN /\ StartReturn(t, inv, InvalidInfo,
                              TransactionIdAfterFailedCommit(inv.transaction_id), FALSE,
                              TRUE)
               /\ UNCHANGED sessions
          ELSE /\ StartReturn(t, inv, inv.resolved, inv.transaction_id, TRUE, FALSE)
               /\ sessions' = Append(sessions, row)
    /\ UNCHANGED <<now, idTags, chargePoints, meterValues, connectorStatus, jobs>>

\* The dispatcher has sent the response of the handler in slot t and is ready
\* for the next message of that connection.
ReturnToDispatch(t) ==
    /\ task[t].pc = "returned"
    /\ task' = [task EXCEPT ![t] = [pc |-> "idle"]]
    /\ last' = [op |-> "Dispatch"]
    /\ UNCHANGED <<now, store, jobs>>

\* The connection of slot t has no handler running and no response pending.
Ready(t) == task[t].pc = "idle"

(***************************************************************************)
(* Meter values: the loop shared by MeterValues and StopTransaction.       *)
(***************************************************************************)
\* float(value): the values that convert, and what they convert to. None and
\* text that is not a number raise.
FloatOf == [v \in {"10", "25"} |-> IF v = "10" THEN 10 ELSE 25]
IsNumeric(value) == value \in DOMAIN FloatOf

\* sampled_val.get(key, default)
GetOr(field, default) == IF field = NoStr THEN default ELSE field

\* A row stored without its Session reference.
MeterValueRowUnowned(sampled_val, session_id, meter_timestamp, default_context) ==
    [session_id |-> 0,
     timestamp |-> meter_timestamp,
     value |-> FloatOf[sampled_val.value],
     unit |-> GetOr(sampled_val.unit, "Wh"),
     measurand |-> GetOr(sampled_val.measurand, "Energy.Active.Import.Register"),
     phase |-> sampled_val.phase,
     location |-> GetOr(sampled_val.location, "Outlet"),
     context |-> GetOr(sampled_val.context, default_context),
     format |-> GetOr(sampled_val.format, "Raw")]

\* MeterValue(session_id=..., timestamp=..., value=..., ...)
MeterValueRow(sampled_val, session_id, meter_timestamp, default_context) ==
    [session_id |-> session_id,
     timestamp |-> meter_timestamp,
     value |-> FloatOf[sampled_val.value],
     unit |-> GetOr(sampled_val.unit, "Wh"),
     measurand |-> GetOr(sampled_val.measurand, "Energy.Active.Import.Register"),
     phase |-> sampled_val.phase,
     location |-> GetOr(sampled_val.location, "Outlet"),
     context |-> GetOr(sampled_val.context, default_context),
     format |-> GetOr(sampled_val.format, "Raw")]

\* An inner loop that ends at the first sampled value that does not convert.
RECURSIVE RowsUntilInvalid(_, _, _)
RowsUntilInvalid(meter_val, session_id, default_context) ==
    LET values == meter_val.sampledValue
        meter_timestamp == IF meter_val.timestamp = NoIso THEN now
                           ELSE parse_ocpp_timestamp(meter_val.timestamp)
    IN IF values = <<>> \/ ~IsNumeric(Head(values).value) THEN <<>>
       ELSE <<MeterValueRow(Head(values), session_id, meter_timestamp, default_context)>>
            \o RowsUntilInvalid([meter_val EXCEPT !.sampledValue = Tail(values)],
                                session_id, default_context)

\* The inner loop: one row per sampled value that converts, the others skipped.
SampledRows(meter_val, session_id, default_context) ==
    LET meter_timestamp == IF meter_val.timestamp = NoIso THEN now
                           ELSE parse_ocpp_timestamp(meter_val.timestamp)
        kept == SelectSeq(meter_val.sampledValue, LAMBDA sv : IsNumeric(sv.value))
    IN [i \in 1 .. Len(kept) |->
           MeterValueRow(kept[i], session_id, meter_timestamp, default_context)]

\* The outer loop over the batch.
RECURSIVE BatchRows(_, _, _)
BatchRows(batch, session_id, default_context) ==
    IF batch = <<>> THEN <<>>
    ELSE SampledRows(Head(batch), session_id, default_context)
         \o BatchRows(Tail(batch), session_id, default_context)

\* A handler that replaces the stored rows by those of the batch.
MeterValuesOverwriting(cp, connector_id, meter_value, transaction_id, err) ==
    /\ meterValues' = BatchRows(meter_value, 0, "Sample.Periodic")
    /\ last' = [op |-> "MeterValues", cp |-> cp, connector_id |-> connector_id,
                transaction_id |-> transaction_id, meter_value |-> meter_value,
                err |-> err, raised |-> FALSE]
    /\ UNCHANGED <<now, idTags, chargePoints, sessions, connectorStatus, jobs, task>>

\* on_meter_values(connector_id, meter_value, transaction_id=);
\* transaction_id 0: none given. err: 0 none, 1 the select raises, 2 the
\* commit raises.
on_meter_values(cp, connector_id, meter_value, transaction_id, err) ==
    LET found == IF transaction_id = 0 THEN {} ELSE SessionsWithTxId(transaction_id)
        \* scalar_one_or_none() raises when several rows match
        raised == \/ err = 1 /\ transaction_id # 0
                  \/ err = 2
                  \/ Cardinality(found) > 1
        sid == IF found = {} THEN 0 ELSE CHOOSE i \in found : TRUE
        rows == BatchRows(meter_value, sid, "Sample.Periodic")
    IN /\ Len(meterValues) + Len(rows) <= MaxMeterRows
       /\ meterValues' = IF raised THEN meterValues ELSE meterValues \o rows
       /\ last' = [op |-> "MeterValues", cp |-> cp, connector_id |-> connector_id,
                   transaction_id |-> transaction_id, meter_value |-> meter_value,
                   err |-> err, raised |-> raised]
       /\ UNCHANGED <<now, idTags, chargePoints, sessions, connectorStatus, jobs, task>>

(***************************************************************************)
(* StopTransaction.                                                        *)
(***************************************************************************)
NoInfo == [status |-> NoStr, expiryDate |-> NoIso, parentIdTag |-> NoStr]

\* The same with the operands of the subtraction exchanged.
EnergyConsumedSwapped(meter_start, meter_stop) == Rat(meter_start - meter_stop, WhPerKWh)

\* energy_wh = meter_stop - session_record.meter_start; energy_wh / 1000.0
EnergyConsumed(meter_start, meter_stop) == Rat(meter_stop - meter_start, WhPerKWh)

\* A stop that puts a Completed Session back to Active.
ReopenedSession(row, meter_stop, stop_time, reason) ==
    [row EXCEPT !.meter_stop = meter_stop,
                !.status = IF @ = "Active" THEN "Completed" ELSE "Active"]

\* The assignments to session_record.
StoppedSession(row, meter_stop, stop_time, reason) ==
    [row EXCEPT !.meter_stop = meter_stop,
                !.stop_timestamp = stop_time,
                !.status = "Completed",
                !.stop_reason = reason,
                !.energy_consumed = IF row.meter_start # NoInt
                                    THEN EnergyConsumed(row.meter_start, meter_stop)
                                    ELSE row.energy_consumed]

\* An upsert: a stop for an id without Session stores a Completed row.
SessionsAfterStopUpsert(transaction_id, meter_stop, stop_time, reason) ==
    LET found == SessionsWithTxId(transaction_id) IN
    IF found = {}
    THEN Append(sessions,
                StoppedSession(NewSession(transaction_id, "CP1", UnknownTag, 1, NoInt, NoTime),
                               meter_stop, stop_time, reason))
    ELSE [sessions EXCEPT ![CHOOSE i \in found : TRUE] =
             StoppedSession(@, meter_stop, stop_time, reason)]

\* A lookup scoped by owner: only a Session of CP1 is completed.
SessionsAfterStopOfCP1(transaction_id, meter_stop, stop_time, reason) ==
    LET found == { i \in SessionsWithTxId(transaction_id) :
                     sessions[i].charge_point_id = "CP1" } IN
    IF found = {} THEN sessions
    ELSE [sessions EXCEPT ![CHOOSE i \in found : TRUE] =
             StoppedSession(@, meter_stop, stop_time, reason)]

\* if not session_record: (log only) else: (update session_record)
SessionsAfterStop(transaction_id, meter_stop, stop_time, reason) ==
    LET found == SessionsWithTxId(transaction_id) IN
    IF found = {} THEN sessions
    ELSE [sessions EXCEPT ![CHOOSE i \in found : TRUE] =
             StoppedSession(@, meter_stop, stop_time, reason)]

\* on_stop_transaction(transaction_id, timestamp, meter_stop, reason=, id_tag=,
\* transaction_data=). err: 0 none, 1 the select raises, 2 the commit raises;
\* tagErr: the lookup inside _get_id_tag_info raises.
on_stop_transaction(cp, transaction_id, timestamp, meter_stop, reason_arg, id_tag, transaction_data, err, tagErr) ==
    LET reason == GetOr(reason_arg, "Local")
        stop_time == parse_ocpp_timestamp(timestamp)
        found == SessionsWithTxId(transaction_id)
        \* scalar_one_or_none() raises when several rows match
        raised == err # 0 \/ Cardinality(found) > 1
        sid == IF found = {} THEN 0 ELSE CHOOSE i \in found : TRUE
        rows == BatchRows(transaction_data, sid, "Transaction.End")
        info == IF id_tag # NoTag /\ err # 1 /\ Cardinality(found) <= 1
                THEN get_id_tag_info(id_tag, tagErr) ELSE NoInfo
    IN /\ Len(meterValues) + Len(rows) <= MaxMeterRows
       /\ IF raised
          THEN UNCHANGED <<sessions, meterValues>>
          ELSE /\ sessions' = SessionsAfterStop(transaction_id, meter_stop, stop_time, reason)
               /\ meterValues' = meterValues \o rows
       /\ last' = [op |-> "StopTransaction", cp |-> cp, transaction_id |-> transaction_id,
                   meter_stop |-> meter_stop, timestamp |-> timestamp,
                   reason |-> reason_arg, id_tag |-> id_tag,
                   transaction_data |-> transaction_data, err |-> err,
                   raised |-> raised, id_tag_info |-> info]
       /\ UNCHANGED <<now, idTags, chargePoints, connectorStatus, jobs, task>>

(***************************************************************************)
(* ConnectorStatus rows, StatusNotification.                               *)
(***************************************************************************)
\* The value of ConnectorStatus.availability in a row stored without one.
DefaultAvailability == "Operative"

\* ConnectorStatus(charge_point_id=..., connector_id=..., status=..., ...)
StatusRow(cp, connector_id, status, error_code, timestamp, availability) ==
    [charge_point_id |-> cp, connector_id |-> connector_id, status |-> status,
     error_code |-> error_code, timestamp |-> timestamp, availability |-> availability]

\* select(ConnectorStatus).where(charge_point_id, connector_id)
\* .order_by(created_at.desc()).limit(1): the row created last, 0 if none.
LatestByCreation(rows, cp, connector_id) ==
    LET own == { i \in DOMAIN rows : /\ rows[i].charge_point_id = cp
                                     /\ rows[i].connector_id = connector_id }
    IN IF own = {} THEN 0 ELSE CHOOSE i \in own : \A j \in own : j <= i

\* on_status_notification(connector_id, error_code, status, timestamp=)
on_status_notification(cp, connector_id, error_code, status, timestamp, err) ==
    LET status_timestamp == IF timestamp = NoIso THEN now
                            ELSE parse_ocpp_timestamp(timestamp)
        row == StatusRow(cp, connector_id, status, error_code, status_timestamp,
                         DefaultAvailability)
    IN /\ Len(connectorStatus) < MaxStatusRows
       /\ IF err
          THEN UNCHANGED <<connectorStatus, chargePoints>>
          ELSE /\ connectorStatus' = Append(connectorStatus, row)
               /\ chargePoints' =
                     IF connector_id = 0 /\ chargePoints[cp].exists
                     THEN [chargePoints EXCEPT ![cp].status = status]
                     ELSE chargePoints
       /\ last' = [op |-> "StatusNotification", cp |-> cp,
                   connector_id |-> connector_id, err |-> err]
       /\ UNCHANGED <<now, idTags, sessions, meterValues, jobs, task>>

(***************************************************************************)
(* ChangeAvailability and its follow-up task.                              *)
(***************************************************************************)
\* status = "Available" if type == "Operative" else "Unavailable"
StatusFor(type) == IF type = "Operative" THEN "Available" ELSE "Unavailable"

\* The Active Sessions of connector 1 that the select of the handler matches.
ActiveOnConnector1(cp) ==
    { i \in DOMAIN sessions : /\ sessions[i].charge_point_id = cp
                              /\ sessions[i].connector_id = 1
                              /\ sessions[i].status = "Active" }

\* An except branch that answers Scheduled.
ScheduledOnException == "Scheduled"

\* except Exception: await session.rollback(); status = "Rejected"
StatusOnException == "Rejected"

\* A handler that takes every connector id as supported.
AnyConnectorSupported(connector_id) == TRUE

\* not (connector_id < 0 or connector_id > 1)
IsSupportedConnector(connector_id) == ~(connector_id < 0 \/ connector_id > 1)

\* A handler that targets connector 1 whatever the request names.
OnlyConnector1(connector_id) == <<1>>

\* target_connectors = [0, 1] if connector_id == 0 else [1]
TargetConnectors(connector_id) == IF connector_id = 0 THEN <<0, 1>> ELSE <<1>>

\* A handler that never finds the connectors in the requested state.
NeverInState(cp, targets, type) == FALSE

\* The loop "Check if already in requested state".
AlreadyInState(cp, targets, type) ==
    \A k \in DOMAIN targets :
        LET i == LatestByCreation(connectorStatus, cp, targets[k]) IN
        i # 0 /\ connectorStatus[i].availability = type

\* A handler whose availability update never reaches the store.
ApplyNothing(rows, cp, targets, type) == rows

\* The loop "Apply availability change immediately": the latest row of each
\* target connector is updated, or a row is created for a connector without one.
RECURSIVE ApplyAvailability(_, _, _, _)
ApplyAvailability(rows, cp, targets, type) ==
    IF targets = <<>> THEN rows
    ELSE LET c == Head(targets)
             i == LatestByCreation(rows, cp, c)
             next == IF i # 0
                     THEN [rows EXCEPT ![i].availability = type]
                     ELSE Append(rows, StatusRow(cp, c, StatusFor(type), "NoError",
                                                 now, type))
         IN ApplyAvailability(next, cp, Tail(targets), type)

\* An except branch without rollback: what the unit of work had written so
\* far stays in the store.
KeepPending(committed, pending) == pending

\* await session.rollback(): the store is as it was when the unit of work began.
Rollback(committed, pending) == committed

\* asyncio.create_task(self._send_availability_status_notifications(...))
AvailabilityJob(cp, targets, type) ==
    [kind |-> "availability", cp |-> cp, connector_ids |-> targets,
     availability_type |-> type, sent |-> <<>>]

\* on_change_availability(connector_id, type); err: a store call raises.
\* The response is Rejected, Scheduled or Accepted.
on_change_availability(cp, connector_id, type, err) ==
    LET targets == TargetConnectors(connector_id)
        active == ActiveOnConnector1(cp)
        \* scalar_one_or_none() raises when several rows match
        raised == err \/ Cardinality(active) > 1
        status == IF ~IsSupportedConnector(connector_id) THEN "Rejected"
                  ELSE IF raised THEN StatusOnException
                  ELSE IF active # {} THEN "Scheduled"
                  ELSE "Accepted"
        applied == status = "Accepted" /\ ~AlreadyInState(cp, targets, type)
    IN /\ applied => Len(jobs) < MaxJobs
       /\ IF applied
          THEN connectorStatus' = ApplyAvailability(connectorStatus, cp, targets, type)
          ELSE IF raised /\ IsSupportedConnector(connector_id)
          \* the store call that raised came after k of the targets were written
          THEN \E k \in 0 .. Len(targets) :
                  connectorStatus'
                  = Rollback(connectorStatus,
                             ApplyAvailability(connectorStatus, cp,
                                               SubSeq(targets, 1, k), type))
          ELSE connectorStatus' = connectorStatus
       /\ jobs' = IF applied THEN Append(jobs, AvailabilityJob(cp, targets, type))
                  ELSE jobs
       /\ last' = [op |-> "ChangeAvailability", cp |-> cp, connector_id |-> connector_id,
                   type |-> type, err |-> err, status |-> status, applied |-> applied]
       /\ UNCHANGED <<now, idTags, chargePoints, sessions, meterValues, task>>

\* call.StatusNotification(connector_id, error_code="NoError", status, info)
AvailabilityNotification(connector_id, availability_type) ==
    [action |-> "StatusNotification", connector_id |-> connector_id,
     error_code |-> "NoError", status |-> StatusFor(availability_type),
     info |-> IF availability_type = "Operative" THEN "Connector set to operative"
              ELSE "Connector set to inoperative"]

\* jobs without the task at position j.
WithoutJob(j) ==
    [k \in 1 .. Len(jobs) - 1 |-> IF k < j THEN jobs[k] ELSE jobs[k + 1]]

\* A task that goes on to its next call after a call that raised.
EndsAfterLastCall(outcome, sent, calls) == sent = calls

\* The task is over after this call: the call raised, and the except branch
\* around the whole body only logs, or it was the last call of the body.
TaskEnds(outcome, sent, calls) == outcome # "ok" \/ sent = calls

\* One turn of the loop of _send_availability_status_notifications, after the
\* sleep: await self.call(status_request). outcome "ok": the call returns;
\* "timeout": the request went out and the call raises; "unsent": the call
\* raises before the request goes out. When the call raises the except branch
\* logs and the task ends; after the last call the coroutine returns.
send_availability_status_notification(j, outcome) ==
    /\ j \in DOMAIN jobs
    /\ jobs[j].kind = "availability"
    /\ LET job == jobs[j]
           c == job.connector_ids[Len(job.sent) + 1]
           request == AvailabilityNotification(c, job.availability_type)
           after == IF outcome = "unsent" THEN job
                    ELSE [job EXCEPT !.sent = Append(@, request)]
           finished == TaskEnds(outcome, Len(after.sent), Len(job.connector_ids))
       IN /\ jobs' = IF finished THEN WithoutJob(j) ELSE [jobs EXCEPT ![j] = after]
          /\ last' = [op |-> "Job", outcome |-> outcome, finished |-> finished,
                      job |-> after]
    /\ UNCHANGED <<now, store, task>>

(***************************************************************************)
(* RemoteStopTransaction and its follow-up task.                           *)
(***************************************************************************)
\* A select that leaves out the owner: every Session with the transaction id.
AnyOwnerSessionsWithTxId(cp, transaction_id) == SessionsWithTxId(transaction_id)

\* select(Session).where(transaction_id == ...).where(charge_point_id == self.id)
OwnSessionsWithTxId(cp, transaction_id) ==
    { i \in SessionsWithTxId(transaction_id) : sessions[i].charge_point_id = cp }

\* session_record.meter_start or 0
MeterStartOrZero(meter_start) == IF meter_start = NoInt THEN 0 ELSE meter_start

\* asyncio.create_task(self._send_automatic_stop_transaction(...))
RemoteStopJob(cp, transaction_id, connector_id, meter_start) ==
    [kind |-> "remote_stop", cp |-> cp, transaction_id |-> transaction_id,
     connector_id |-> connector_id, meter_start |-> meter_start, sent |-> <<>>]

\* A handler that answers Accepted and creates no task.
RemoteStopWithoutTask(cp, transaction_id, err) ==
    /\ last' = [op |-> "RemoteStopTransaction", cp |-> cp,
                transaction_id |-> transaction_id, err |-> err, status |-> "Accepted"]
    /\ UNCHANGED <<now, store, jobs, task>>

\* on_remote_stop_transaction(transaction_id); err: the select raises.
on_remote_stop_transaction(cp, transaction_id, err) ==
    LET found == OwnSessionsWithTxId(cp, transaction_id)
        \* scalar_one_or_none() raises when several rows match
        raised == err \/ Cardinality(found) > 1
        status == IF raised THEN StatusOnException
                  ELSE IF found = {} THEN "Rejected"
                  ELSE IF \E i \in found : sessions[i].status # "Active" THEN "Rejected"
                  ELSE "Accepted"
        row == sessions[CHOOSE i \in found : TRUE]
    IN /\ status = "Accepted" => Len(jobs) < MaxJobs
       /\ jobs' = IF status = "Accepted"
                  THEN Append(jobs, RemoteStopJob(cp, transaction_id, row.connector_id,
                                                  MeterStartOrZero(row.meter_start)))
                  ELSE jobs
       /\ last' = [op |-> "RemoteStopTransaction", cp |-> cp,
                   transaction_id |-> transaction_id, err |-> err, status |-> status]
       /\ UNCHANGED <<now, store, task>>

\* The increments random.randint(1000, 5000) yields here.
StopIncrements == {1000, 5000}

\* call.StopTransaction(transaction_id, meter_stop, timestamp, reason="Remote")
AutomaticStopRequest(job, increment) ==
    [action |-> "StopTransaction", transaction_id |-> job.transaction_id,
     meter_stop |-> job.meter_start + increment, reason |-> "Remote"]

\* call.StatusNotification(connector_id, "NoError", "Available", info)
AutomaticStopNotification(job) ==
    [action |-> "StatusNotification", connector_id |-> job.connector_id,
     error_code |-> "NoError", status |-> "Available",
     info |-> "Transaction stopped remotely"]

\* A task that completes the Session itself instead of sending the request.
AutomaticStopCompleting(j, outcome, increment) ==
    /\ j \in DOMAIN jobs
    /\ jobs[j].kind = "remote_stop"
    /\ sessions' = SessionsAfterStop(jobs[j].transaction_id,
                                     jobs[j].meter_start + increment, now, "Remote")
    /\ jobs' = WithoutJob(j)
    /\ last' = [op |-> "Job", outcome |-> outcome, finished |-> TRUE, job |-> jobs[j]]
    /\ UNCHANGED <<now, idTags, chargePoints, meterValues, connectorStatus, task>>

\* One call of _send_automatic_stop_transaction, after the sleep before it:
\* first the StopTransaction request, then the StatusNotification. The
\* outcomes are those of send_availability_status_notification.
send_automatic_stop_transaction(j, outcome, increment) ==
    /\ j \in DOMAIN jobs
    /\ jobs[j].kind = "remote_stop"
    /\ LET job == jobs[j]
           request == IF job.sent = <<>> THEN AutomaticStopRequest(job, increment)
                      ELSE AutomaticStopNotification(job)
           after == IF outcome = "unsent" THEN job
                    ELSE [job EXCEPT !.sent = Append(@, request)]
           finished == TaskEnds(outcome, Len(after.sent), 2)
       IN /\ jobs' = IF finished THEN WithoutJob(j) ELSE [jobs EXCEPT ![j] = after]
          /\ last' = [op |-> "Job", outcome |-> outcome, finished |-> finished,
                      job |-> after]
    /\ UNCHANGED <<now, store, task>>

(***************************************************************************)
(* BootNotification, Heartbeat and the connectivity flag.                  *)
(***************************************************************************)
\* interval=300
HeartbeatInterval == 300

\* on_boot_notification(charge_point_vendor, charge_point_model); err: a store
\* call raises. The row is created or updated; the response is the same.
on_boot_notification(cp, vendor, err) ==
    /\ chargePoints' =
          IF err THEN chargePoints
          ELSE [chargePoints EXCEPT ![cp] =
                   [exists |-> TRUE, vendor |-> vendor, is_online |-> TRUE,
                    last_seen |-> now, status |-> @.status]]
    /\ last' = [op |-> "BootNotification", cp |-> cp, err |-> err,
                status |-> "Accepted", interval |-> HeartbeatInterval,
                current_time |-> isoformat(now)]
    /\ UNCHANGED <<now, idTags, sessions, meterValues, connectorStatus, jobs, task>>

\* A Heartbeat whose writes survive a failed commit.
HeartbeatWithoutRollback(cp, err) ==
    /\ chargePoints' =
          IF chargePoints[cp].exists
          THEN [chargePoints EXCEPT ![cp].last_seen = now, ![cp].is_online = TRUE]
          ELSE chargePoints
    /\ last' = [op |-> "Heartbeat", cp |-> cp, err |-> err,
                current_time |-> isoformat(now)]
    /\ UNCHANGED <<now, idTags, sessions, meterValues, connectorStatus, jobs, task>>

\* on_heartbeat(); err: session.get or session.commit raises.
on_heartbeat(cp, err) ==
    /\ chargePoints' =
          IF ~err /\ chargePoints[cp].exists
          THEN [chargePoints EXCEPT ![cp].last_seen = now, ![cp].is_online = TRUE]
          ELSE chargePoints
    /\ last' = [op |-> "Heartbeat", cp |-> cp, err |-> err,
                current_time |-> isoformat(now)]
    /\ UNCHANGED <<now, idTags, sessions, meterValues, connectorStatus, jobs, task>>

\* The connectivity flag of a stored charge point is cleared outside the
\* handlers, when its connection ends.
MarkOffline(cp) ==
    /\ chargePoints[cp].exists
    /\ chargePoints[cp].is_online
    /\ chargePoints' = [chargePoints EXCEPT ![cp].is_online = FALSE]
    /\ last' = [op |-> "MarkOffline", cp |-> cp]
    /\ UNCHANGED <<now, idTags, sessions, meterValues, connectorStatus, jobs, task>>

(***************************************************************************)
(* RemoteStartTransaction.                                                 *)
(***************************************************************************)
\* A select that orders by creation: the row created last, if any.
CreatedLast(rows, cp, connector_id) == {LatestByCreation(rows, cp, connector_id)} \ {0}

\* select(ConnectorStatus).where(charge_point_id, connector_id)
\* .order_by(timestamp.desc()).limit(1): the rows the query can return, those
\* with the greatest timestamp (the store picks one when several tie).
LatestByTimestamp(rows, cp, connector_id) ==
    LET own == { i \in DOMAIN rows : /\ rows[i].charge_point_id = cp
                                     /\ rows[i].connector_id = connector_id }
    IN { i \in own : \A j \in own : rows[j].timestamp <= rows[i].timestamp }

\* latest_status.status not in ["Available", "Preparing"]
StartableStatuses == {"Available", "Preparing"}

\* on_remote_start_transaction(id_tag, connector_id=); connector_id NoInt: no
\* connector is named. tagErr: the credential lookup raises; err: a store
\* call of the handler raises.
on_remote_start_transaction(cp, id_tag, connector_id, tagErr, err) ==
    LET id_tag_info == get_id_tag_info(id_tag, tagErr)
        charge_point == chargePoints[cp]
        candidates == LatestByTimestamp(connectorStatus, cp, connector_id)
    IN \E picked \in (IF candidates = {} THEN {0} ELSE candidates) :
          LET status ==
                 IF id_tag_info.status # "Accepted" THEN "Rejected"
                 ELSE IF err THEN StatusOnException
                 ELSE IF ~charge_point.exists \/ ~charge_point.is_online THEN "Rejected"
                 ELSE IF /\ connector_id # NoInt
                         /\ picked # 0
                         /\ connectorStatus[picked].status \notin StartableStatuses
                      THEN "Rejected"
                 ELSE "Accepted"
          IN /\ last' = [op |-> "RemoteStartTransaction", cp |-> cp, id_tag |-> id_tag,
                         connector_id |-> connector_id, tagErr |-> tagErr, err |-> err,
                         status |-> status]
             /\ UNCHANGED <<now, store, jobs, task>>

(***************************************************************************)
(* SpecConc: StartTransaction handlers of NTasks connections, interleaved  *)
(* at every store call.                                                    *)
(***************************************************************************)
AcceptedTag == <<"Accepted", NoTime, NoStr>>

\* The charge point whose connection runs handler slot t.
ConnectionOf(t) == IF t = 1 THEN "CP1" ELSE "CP2"

ConcResolve ==
    \E t \in Tasks :
        on_start_transaction_resolve(t, ConnectionOf(t), 1, AcceptedTag, 100,
                                     isoformat(0), FALSE)
ConcLookup == \E t \in Tasks : on_start_transaction_lookup(t, FALSE)
ConcGenerate ==
    \E t \in Tasks, drawn \in TxIds : on_start_transaction_generate(t, drawn, FALSE)
ConcCommit == \E t \in Tasks, err \in BOOLEAN : on_start_transaction_commit(t, err)

NextConc == ConcResolve \/ ConcLookup \/ ConcGenerate \/ ConcCommit
SpecConc == Init /\ [][NextConc]_vars

\* C1: the transaction ids that StartTransaction calls with an Accepted
\* credential return are pairwise distinct (stated for the ids other than 0,
\* the value of a call that allocated none).
C1_ReturnedIdsDistinct ==
    \A t, u \in Tasks :
        ( /\ t # u
          /\ task[t].pc = "returned" /\ task[u].pc = "returned"
          /\ task[t].resolved.status = "Accepted"
          /\ task[u].resolved.status = "Accepted"
          /\ task[t].transaction_id # 0 /\ task[u].transaction_id # 0 )
        => task[t].transaction_id # task[u].transaction_id

\* Two handlers that ran for different connections have both answered a
\* StartTransaction whose credential resolved to Accepted.
C1_Witness ==
    \E t, u \in Tasks :
        /\ t # u
        /\ task[t].pc = "returned" /\ task[u].pc = "returned"
        /\ task[t].resolved.status = "Accepted"
        /\ task[u].resolved.status = "Accepted"
        /\ task[t].transaction_id # 0 /\ task[u].transaction_id # 0
        /\ task[t].cp # task[u].cp

AuthAuthorize ==
    /\ Ready(1)
    /\ \E id_tag \in AllTags, err \in BOOLEAN : on_authorize("CP1", id_tag, err)
AuthResolve ==
    \E id_tag \in AllTags, err \in BOOLEAN :
        on_start_transaction_resolve(1, "CP1", 1, id_tag, 100, isoformat(0), err)
AuthLookup == \E err \in BOOLEAN : on_start_transaction_lookup(1, err)
AuthGenerate ==
    \E drawn \in TxIds, err \in BOOLEAN : on_start_transaction_generate(1, drawn, err)
AuthCommit == \E err \in BOOLEAN : on_start_transaction_commit(1, err)
AuthDispatch == ReturnToDispatch(1)

NextAuth ==
    \/ Tick \/ AuthAuthorize \/ AuthResolve \/ AuthLookup \/ AuthGenerate
    \/ AuthCommit \/ AuthDispatch
SpecAuth == Init /\ [][NextAuth]_vars

\* What the stored fields of a credential say its status is at the current time.
StoredStatus(id_tag) ==
    IF id_tag \notin idTags THEN "Invalid"
    ELSE IF id_tag[2] # NoTime /\ id_tag[2] < now THEN "Expired"
    ELSE id_tag[1]

\* C3: a StartTransaction whose credential does not resolve to Accepted
\* (unknown, Blocked, Expired, Invalid, ConcurrentTx) returns transaction id 0
\* with the resolved idTagInfo, and leaves the Session rows as they were.
C3_NotAcceptedCreatesNothing ==
    [][ (/\ last'.op = "StartTransaction"
         /\ task[last'.task].pc \in {"idle", "returned"}
         /\ StoredStatus(task'[last'.task].id_tag) # "Accepted")
        => (/\ last'.returned
            /\ task'[last'.task].transaction_id = 0
            /\ task'[last'.task].id_tag_info = task'[last'.task].resolved
            /\ task'[last'.task].id_tag_info.status \in
                  {StoredStatus(task'[last'.task].id_tag), "Invalid"}
            /\ sessions' = sessions) ]_vars

\* A ConcurrentTx credential was refused while a Session is stored.
C3_Witness ==
    /\ last.op = "StartTransaction"
    /\ last.returned
    /\ task[1].id_tag[1] = "ConcurrentTx"
    /\ task[1].id_tag_info.status = "ConcurrentTx"
    /\ task[1].transaction_id = 0
    /\ Len(sessions) = 1

\* C4: for a stored credential whose expiry time is strictly before the
\* current time, resolve returns Expired with that expiry echoed back,
\* whatever the stored status.
C4_ExpiredEchoesExpiry ==
    ( /\ last.op = "Authorize"
      /\ ~last.err
      /\ last.id_tag \in idTags
      /\ last.id_tag[2] # NoTime
      /\ last.id_tag[2] < now )
    => ( /\ last.id_tag_info.status = "Expired"
         /\ last.id_tag_info.expiryDate = isoformat(last.id_tag[2]) )

\* A credential stored as Blocked, expired since 1, resolved at time 2.
C4_Witness ==
    /\ last.op = "Authorize"
    /\ ~last.err
    /\ last.id_tag = <<"Blocked", 1, NoStr>>
    /\ now = 2
    /\ last.id_tag_info.status = "Expired"

\* C5: resolve returns Invalid for a credential that is not stored and for a
\* persistence error during the lookup, and Authorize changes no table.
C5_ResolveFailsClosed ==
    [][ last'.op = "Authorize"
        => ( /\ store' = store
             /\ (last'.err \/ last'.id_tag \notin idTags)
                   => last'.id_tag_info.status = "Invalid" ) ]_vars

\* The lookup of a stored Accepted credential raised.
C5_Witness ==
    /\ last.op = "Authorize"
    /\ last.err
    /\ last.id_tag = AcceptedTag
    /\ last.id_tag_info.status = "Invalid"
    /\ Len(sessions) > 0

(***************************************************************************)
(* Spec: the ledger. StartTransaction and StopTransaction of one           *)
(* connection, handled one message at a time.                              *)
(***************************************************************************)
\* Meter readings in Wh.
MeterStarts == {100, 600}
MeterStops == {100, 1100}
\* The ids the random draw yields here, and an id no Session carries.
LedgerDraws == {TxIdBase, TxIdBase + 1}
StopIds == LedgerDraws \cup {0}

LedgerResolve ==
    \E id_tag \in {AcceptedTag, UnknownTag}, meter_start \in MeterStarts :
        on_start_transaction_resolve(1, "CP1", 1, id_tag, meter_start, isoformat(0), FALSE)
LedgerLookup == on_start_transaction_lookup(1, FALSE)
LedgerGenerate ==
    \E drawn \in LedgerDraws : on_start_transaction_generate(1, drawn, FALSE)
LedgerCommit == \E err \in BOOLEAN : on_start_transaction_commit(1, err)
LedgerDispatch == ReturnToDispatch(1)
LedgerStop ==
    /\ Ready(1)
    /\ \E transaction_id \in StopIds, meter_stop \in MeterStops,
          reason \in {NoStr, "EVDisconnected"}, id_tag \in {NoTag, AcceptedTag},
          err \in 0 .. 2 :
          on_stop_transaction("CP1", transaction_id, isoformat(1), meter_stop, reason,
                              id_tag, <<>>, err, FALSE)

Next ==
    \/ LedgerResolve \/ LedgerLookup \/ LedgerGenerate \/ LedgerCommit
    \/ LedgerDispatch \/ LedgerStop
Spec == Init /\ [][Next]_vars

\* C6: a StopTransaction for the Session that a StartTransaction created with
\* meterStart = s sets it Completed, records meterStop = e, the stop time and
\* the stop reason, and sets energyConsumed to (e - s) / 1000 kWh, also when
\* e < s; s = 100 and e = 1100 give 1.0.
C6_StopCompletesSession ==
    [][ \A i \in DOMAIN sessions :
          ( /\ last'.op = "StopTransaction"
            /\ ~last'.raised
            /\ sessions[i].transaction_id = last'.transaction_id
            /\ sessions[i].status = "Active" )
          => ( /\ sessions'[i].status = "Completed"
               /\ sessions'[i].meter_stop = last'.meter_stop
               /\ isoformat(sessions'[i].stop_timestamp) = last'.timestamp
               /\ sessions'[i].stop_reason =
                     (IF last'.reason = NoStr THEN "Local" ELSE last'.reason)
               /\ sessions'[i].energy_consumed.d > 0
               /\ sessions'[i].energy_consumed.n * 1000 =
                     (last'.meter_stop - sessions[i].meter_start)
                        * sessions'[i].energy_consumed.d
               /\ (sessions[i].meter_start = 100 /\ last'.meter_stop = 1100)
                     => sessions'[i].energy_consumed = [n |-> 1, d |-> 1] ) ]_vars

\* One Session went from 100 Wh to 1100 Wh (1.0 kWh), another from 600 Wh
\* down to 100 Wh (-0.5 kWh).
C6_Witness ==
    /\ last.op = "StopTransaction"
    /\ \E i, j \in DOMAIN sessions :
          /\ sessions[i].meter_start = 100 /\ sessions[i].meter_stop = 1100
          /\ sessions[i].energy_consumed = [n |-> 1, d |-> 1]
          /\ sessions[j].meter_start = 600 /\ sessions[j].meter_stop = 100
          /\ sessions[j].energy_consumed = [n |-> -1, d |-> 2]
          /\ sessions[j].status = "Completed"

\* C7: a StopTransaction whose transaction id no Session carries is still
\* acknowledged (the lookup finding nothing raises nothing, and a supplied
\* credential is resolved into the response), and it creates or modifies no
\* Session row.
C7_UnknownStopAcknowledged ==
    [][ ( /\ last'.op = "StopTransaction"
          /\ SessionsWithTxId(last'.transaction_id) = {} )
        => ( /\ sessions' = sessions
             /\ last'.err = 0 => ~last'.raised
             /\ (last'.err = 0 /\ last'.id_tag = AcceptedTag)
                   => last'.id_tag_info.status = "Accepted" ) ]_vars

\* An unknown id was stopped while a Session of another id is Active.
C7_Witness ==
    /\ last.op = "StopTransaction"
    /\ last.err = 0
    /\ SessionsWithTxId(last.transaction_id) = {}
    /\ \E i \in DOMAIN sessions : sessions[i].status = "Active"

(***************************************************************************)
(* SpecAvail: ChangeAvailability on one connection, with the sessions and  *)
(* status rows it reads and the follow-up tasks it spawns.                 *)
(***************************************************************************)
\* The steps of the one StartTransaction and its StopTransaction are shared
\* by the later specifications that need a Session on connector 1 of CP1.
AvailResolve ==
    /\ sessions = <<>>
    /\ on_start_transaction_resolve(1, "CP1", 1, AcceptedTag, 100, isoformat(0), FALSE)
AvailLookup == on_start_transaction_lookup(1, FALSE)
AvailGenerate == on_start_transaction_generate(1, TxIdBase, FALSE)
AvailCommit == on_start_transaction_commit(1, FALSE)
AvailDispatch == ReturnToDispatch(1)
AvailStop ==
    /\ Ready(1)
    /\ on_stop_transaction("CP1", TxIdBase, isoformat(0), 1100, NoStr, NoTag, <<>>, 0, FALSE)
AvailStatus ==
    /\ Ready(1)
    \* room is left for the rows that ChangeAvailability creates
    /\ Len(connectorStatus) < MaxStatusRows - 1
    /\ \E connector_id \in {0, 1} :
          on_status_notification("CP1", connector_id, "NoError", "Charging", NoIso, FALSE)
\* One follow-up task fewer than MaxJobs is pending at a time here.
AvailChange ==
    /\ Ready(1)
    /\ \E connector_id \in {0, 1, 2}, type \in {"Operative", "Inoperative"},
          err \in BOOLEAN :
          on_change_availability("CP1", connector_id, type, err)
    /\ Len(jobs') < MaxJobs
AvailJob ==
    \E j \in 1 .. MaxJobs, outcome \in {"ok", "timeout", "unsent"} :
        send_availability_status_notification(j, outcome)

NextAvail ==
    \/ AvailResolve \/ AvailLookup \/ AvailGenerate \/ AvailCommit \/ AvailDispatch
    \/ AvailStop \/ AvailStatus \/ AvailChange \/ AvailJob
SpecAvail == Init /\ [][NextAvail]_vars

(***************************************************************************)
(* SpecBusy: ChangeAvailability on a connection that starts up to two      *)
(* transactions on connector 1 and stops none.                             *)
(***************************************************************************)
BusyResolve ==
    /\ Len(sessions) < Cardinality(LedgerDraws)
    /\ on_start_transaction_resolve(1, "CP1", 1, AcceptedTag, 100, isoformat(0), FALSE)
BusyLookup == on_start_transaction_lookup(1, FALSE)
BusyGenerate ==
    \E drawn \in LedgerDraws :
        /\ drawn = TxIdBase + Len(sessions)
        /\ on_start_transaction_generate(1, drawn, FALSE)
BusyCommit == on_start_transaction_commit(1, FALSE)
BusyDispatch == ReturnToDispatch(1)
\* One follow-up task fewer than MaxJobs is pending at a time here.
BusyChange ==
    /\ Ready(1)
    /\ \E connector_id \in {-1, 0, 1, 2}, type \in {"Operative", "Inoperative"},
          err \in BOOLEAN :
          on_change_availability("CP1", connector_id, type, err)
    /\ Len(jobs') < MaxJobs
BusyJob ==
    \E j \in 1 .. MaxJobs, outcome \in {"ok", "timeout", "unsent"} :
        send_availability_status_notification(j, outcome)

NextBusy ==
    \/ BusyResolve \/ BusyLookup \/ BusyGenerate \/ BusyCommit \/ BusyDispatch
    \/ BusyChange \/ BusyJob
SpecBusy == Init /\ [][NextBusy]_vars

\* The availability recorded last for a connector, NoStr when it has no row.
CurrentAvailability(rows, cp, connector_id) ==
    LET i == LatestByCreation(rows, cp, connector_id)
    IN IF i = 0 THEN NoStr ELSE rows[i].availability

\* A step is a ChangeAvailability call on a supported connector that no store
\* failure interrupts.
ChangeStep == /\ last'.op = "ChangeAvailability"
              /\ last'.connector_id \in {0, 1}
              /\ ~last'.err

\* C8: a ChangeAvailability on connector 0 or 1 while connector 1 of the
\* charge point has one or more Active sessions is answered Scheduled, changes
\* no ConnectorStatus row and spawns no follow-up task.
C8_BusyConnectorScheduled ==
    [][(ChangeStep /\ ActiveOnConnector1(last'.cp) # {})
        => /\ last'.status = "Scheduled"
           /\ connectorStatus' = connectorStatus
           /\ jobs' = jobs]_vars

\* C8, the part the code keeps: with exactly one Active session on connector 1
\* the answer is Scheduled, and with any number of them nothing is changed
\* and no task is spawned.
C8_OneActiveScheduled ==
    [][(ChangeStep /\ ActiveOnConnector1(last'.cp) # {})
        => /\ Cardinality(ActiveOnConnector1(last'.cp)) = 1 => last'.status = "Scheduled"
           /\ connectorStatus' = connectorStatus
           /\ jobs' = jobs]_vars

\* Two Active sessions on connector 1 and a ChangeAvailability just answered.
C8_Witness ==
    /\ last.op = "ChangeAvailability"
    /\ last.connector_id \in {0, 1}
    /\ ~last.err
    /\ Cardinality(ActiveOnConnector1(last.cp)) = 2

\* A follow-up task of ChangeAvailability(0, Operative).
IsStationOperativeJob(job) ==
    /\ job.kind = "availability"
    /\ job.connector_ids = <<0, 1>>
    /\ job.availability_type = "Operative"

\* A step is ChangeAvailability(connector 0, Operative) with no Active session
\* on connector 1 and no store failure.
StationOperativeStep ==
    /\ ChangeStep
    /\ last'.connector_id = 0
    /\ last'.type = "Operative"
    /\ ActiveOnConnector1(last'.cp) = {}

\* C9 as stated: every ChangeAvailability(0, Operative) with no Active session
\* leaves connectors 0 and 1 Operative and spawns the task that sends the two
\* notifications.
C9_AlwaysTwoNotifications ==
    [][StationOperativeStep
        => /\ CurrentAvailability(connectorStatus', last'.cp, 0) = "Operative"
           /\ CurrentAvailability(connectorStatus', last'.cp, 1) = "Operative"
           /\ Len(jobs') = Len(jobs) + 1
           /\ IsStationOperativeJob(jobs'[Len(jobs')])]_vars

\* C9: ChangeAvailability(0, Operative) with no Active session on connector 1,
\* when connector 0 or 1 is not already recorded Operative, is answered
\* Accepted, leaves the latest rows of connectors 0 and 1 Operative and spawns
\* one task; that task, when none of its calls raises, ends after exactly two
\* StatusNotification requests, for connector 0 and then connector 1, each
\* with status Available.
C9_StationOperative ==
    [][/\ (/\ StationOperativeStep
           /\ \E c \in {0, 1} :
                 CurrentAvailability(connectorStatus, last'.cp, c) # "Operative")
          => /\ last'.status = "Accepted"
             /\ CurrentAvailability(connectorStatus', last'.cp, 0) = "Operative"
             /\ CurrentAvailability(connectorStatus', last'.cp, 1) = "Operative"
             /\ Len(jobs') = Len(jobs) + 1
             /\ IsStationOperativeJob(jobs'[Len(jobs')])
             /\ jobs'[Len(jobs')].sent = <<>>
       /\ (/\ last'.op = "Job"
           /\ last'.finished
           /\ last'.outcome = "ok"
           /\ IsStationOperativeJob(last'.job))
          => /\ Len(last'.job.sent) = 2
             /\ \A k \in {1, 2} :
                   /\ last'.job.sent[k].action = "StatusNotification"
                   /\ last'.job.sent[k].connector_id = k - 1
                   /\ last'.job.sent[k].status = "Available"
             /\ Len(jobs') = Len(jobs) - 1]_vars

\* The task of a ChangeAvailability(0, Operative) has just ended after its
\* second notification.
C9_Witness ==
    /\ last.op = "Job"
    /\ last.finished
    /\ last.outcome = "ok"
    /\ IsStationOperativeJob(last.job)
    /\ Len(last.job.sent) = 2

\* C10: a ChangeAvailability on connector 0 or 1 with no Active session on
\* connector 1, when the latest row of every target connector already records
\* the requested type, is answered Accepted, creates or modifies no
\* ConnectorStatus row and spawns no task; a ChangeAvailability repeated
\* right after an Accepted one with the same arguments is such a call.
C10_AlreadyInStateNoOp ==
    [][/\ (/\ ChangeStep
           /\ ActiveOnConnector1(last'.cp) = {}
           /\ \A c \in (IF last'.connector_id = 0 THEN {0, 1} ELSE {1}) :
                 CurrentAvailability(connectorStatus, last'.cp, c) = last'.type)
          => /\ last'.status = "Accepted"
             /\ connectorStatus' = connectorStatus
             /\ jobs' = jobs
       /\ (/\ ChangeStep
           /\ last.op = "ChangeAvailability"
           /\ last.status = "Accepted"
           /\ last'.cp = last.cp
           /\ last'.connector_id = last.connector_id
           /\ last'.type = last.type)
          => /\ last'.status = "Accepted"
             /\ connectorStatus' = connectorStatus
             /\ jobs' = jobs]_vars

\* A ChangeAvailability was answered Accepted without a change, while the
\* task of the call that made the change is still running.
C10_Witness ==
    /\ last.op = "ChangeAvailability"
    /\ last.status = "Accepted"
    /\ ~last.applied
    /\ jobs # <<>>
    /\ jobs[1].connector_ids = TargetConnectors(last.connector_id)
    /\ jobs[1].availability_type = last.type
    /\ jobs[1].sent = <<>>

\* C11: a ChangeAvailability whose connector id is outside {0, 1} is answered
\* Rejected, changes no ConnectorStatus row and spawns no follow-up task,
\* whether or not the charge point has an Active session and whether or not
\* the store fails.
C11_UnsupportedConnectorRejected ==
    [][(last'.op = "ChangeAvailability" /\ last'.connector_id \notin {0, 1})
        => /\ last'.status = "Rejected"
           /\ connectorStatus' = connectorStatus
           /\ jobs' = jobs]_vars

\* A ChangeAvailability for connector 2 was answered while connector 1 was
\* charging and the store held status rows that the call could have changed.
C11_Witness ==
    /\ last.op = "ChangeAvailability"
    /\ last.connector_id = 2
    /\ ~last.err
    /\ last.status = "Rejected"
    /\ ActiveOnConnector1(last.cp) # {}
    /\ connectorStatus # <<>>

(***************************************************************************)
(* SpecRemote: RemoteStopTransaction on the connection of CP1, with one    *)
(* transaction of CP1 and one of CP2, started and stopped, and the tasks   *)
(* the accepted requests spawn.                                            *)
(***************************************************************************)
RemoteResolve ==
    \E cp \in CPs :
        /\ \A i \in DOMAIN sessions : sessions[i].charge_point_id # cp
        /\ on_start_transaction_resolve(1, cp, 1, AcceptedTag, 100, isoformat(0), FALSE)
RemoteStopLocal ==
    /\ Ready(1)
    /\ \E transaction_id \in LedgerDraws, err \in {0, 2} :
          on_stop_transaction("CP1", transaction_id, isoformat(0), 1100, NoStr, NoTag,
                              <<>>, err, FALSE)
RemoteStop ==
    /\ Ready(1)
    /\ \E transaction_id \in StopIds, err \in BOOLEAN :
          on_remote_stop_transaction("CP1", transaction_id, err)
RemoteJob ==
    \E j \in 1 .. MaxJobs, outcome \in {"ok", "timeout", "unsent"},
       increment \in StopIncrements :
        send_automatic_stop_transaction(j, outcome, increment)

NextRemote ==
    \/ RemoteResolve \/ AvailLookup \/ BusyGenerate \/ AvailCommit \/ AvailDispatch
    \/ RemoteStopLocal \/ RemoteStop \/ RemoteJob
SpecRemote == Init /\ [][NextRemote]_vars

\* The Sessions with a transaction id that a charge point owns and that are
\* Active.
OwnedActive(cp, transaction_id) ==
    { i \in DOMAIN sessions : /\ sessions[i].transaction_id = transaction_id
                              /\ sessions[i].charge_point_id = cp
                              /\ sessions[i].status = "Active" }

\* C12: a RemoteStopTransaction is answered Accepted only if a Session with
\* that transaction id exists, is owned by the calling charge point and is
\* Active, and, when the select does not raise, always in that case; every
\* other answer is Rejected and spawns no follow-up task; the call changes no
\* row of the store.
C12_RemoteStopAcceptedIffOwnedActive ==
    [][last'.op = "RemoteStopTransaction"
        => /\ last'.status \in {"Accepted", "Rejected"}
           /\ last'.status = "Accepted"
                 => OwnedActive(last'.cp, last'.transaction_id) # {}
           /\ (OwnedActive(last'.cp, last'.transaction_id) # {} /\ ~last'.err)
                 => last'.status = "Accepted"
           /\ last'.status = "Rejected" => jobs' = jobs
           /\ store' = store]_vars

\* A RemoteStopTransaction of CP1 for the Active transaction of CP2 was
\* answered Rejected, while CP1 has a Completed transaction of its own.
C12_Witness ==
    /\ last.op = "RemoteStopTransaction"
    /\ ~last.err
    /\ last.status = "Rejected"
    /\ \E i \in DOMAIN sessions :
          /\ sessions[i].transaction_id = last.transaction_id
          /\ sessions[i].charge_point_id # last.cp
          /\ sessions[i].status = "Active"
    /\ \E i \in DOMAIN sessions :
          /\ sessions[i].charge_point_id = last.cp
          /\ sessions[i].status = "Completed"

(***************************************************************************)
(* SpecStart: RemoteStartTransaction on the connection of CP1, as the      *)
(* charge point boots, goes offline and reports the status of connector 1. *)
(***************************************************************************)
StartTags == {AcceptedTag, <<"Accepted", 1, "PARENT">>, <<"Blocked", NoTime, NoStr>>,
              UnknownTag}
StartBoot == \E err \in BOOLEAN : on_boot_notification("CP1", "ACME", err)
StartHeartbeat == \E err \in BOOLEAN : on_heartbeat("CP1", err)
StartOffline == MarkOffline("CP1")
StartStatus ==
    \E status \in {"Available", "Charging"}, t \in {0, 1} :
        on_status_notification("CP1", 1, "NoError", status, isoformat(t), FALSE)
StartRemote ==
    \E id_tag \in StartTags, connector_id \in {NoInt, 1}, tagErr \in BOOLEAN,
       err \in BOOLEAN :
        on_remote_start_transaction("CP1", id_tag, connector_id, tagErr, err)

NextStart == StartBoot \/ StartHeartbeat \/ StartOffline \/ StartStatus \/ StartRemote
SpecStart == Init /\ [][NextStart]_vars

\* The statuses of the rows of a connector that carry its greatest timestamp.
LatestStatuses(cp, connector_id) ==
    { connectorStatus[i].status :
        i \in { k \in DOMAIN connectorStatus :
                  /\ connectorStatus[k].charge_point_id = cp
                  /\ connectorStatus[k].connector_id = connector_id
                  /\ \A j \in DOMAIN connectorStatus :
                        ( /\ connectorStatus[j].charge_point_id = cp
                          /\ connectorStatus[j].connector_id = connector_id )
                        => connectorStatus[j].timestamp <= connectorStatus[k].timestamp } }

\* The charge point has a row and the row is marked online.
IsOnline(cp) == chargePoints[cp].exists /\ chargePoints[cp].is_online

\* C13: a RemoteStartTransaction is answered Rejected when the credential does
\* not resolve to Accepted, when the charge point is unknown or not marked
\* online, and, with a connector named, when the status that connector
\* reported with its greatest timestamp is not Available or Preparing; with
\* no connector named, an Accepted credential and no store failure it is
\* answered Accepted exactly when the charge point is online. It creates no
\* Session, changes no row and spawns no task.
C13_RemoteStartDecision ==
    [][last'.op = "RemoteStartTransaction"
        => /\ last'.status \in {"Accepted", "Rejected"}
           /\ (last'.tagErr \/ StoredStatus(last'.id_tag) # "Accepted")
                 => last'.status = "Rejected"
           /\ ~IsOnline(last'.cp) => last'.status = "Rejected"
           /\ ( /\ last'.connector_id # NoInt
                /\ LatestStatuses(last'.cp, last'.connector_id) # {}
                /\ LatestStatuses(last'.cp, last'.connector_id)
                      \cap {"Available", "Preparing"} = {} )
                 => last'.status = "Rejected"
           /\ ( /\ last'.connector_id = NoInt
                /\ ~last'.tagErr /\ ~last'.err
                /\ StoredStatus(last'.id_tag) = "Accepted" )
                 => (last'.status = "Accepted" <=> IsOnline(last'.cp))
           /\ store' = store
           /\ jobs' = jobs]_vars

\* An online charge point with an Accepted credential was answered Rejected
\* for connector 1, whose Charging report carries a later timestamp than the
\* Available report stored after it.
C13_Witness ==
    /\ last.op = "RemoteStartTransaction"
    /\ last.status = "Rejected"
    /\ ~last.tagErr /\ ~last.err
    /\ StoredStatus(last.id_tag) = "Accepted"
    /\ IsOnline(last.cp)
    /\ last.connector_id = 1
    /\ Len(connectorStatus) = 2
    /\ connectorStatus[1].status = "Charging"
    /\ connectorStatus[2].status = "Available"
    /\ connectorStatus[2].timestamp < connectorStatus[1].timestamp

(***************************************************************************)
(* SpecMeter: MeterValues and StopTransaction with batches of readings, on *)
(* the connection of CP1 and its one transaction.                          *)
(***************************************************************************)
\* A sampled value that carries only its value; NoStr is a missing value.
Reading(value) ==
    [value |-> value, unit |-> NoStr, measurand |-> NoStr, phase |-> NoStr,
     location |-> NoStr, context |-> NoStr, format |-> NoStr]

\* The batches sent: one numeric reading; a reading that is not a number
\* before a numeric one; two entries with a numeric and a non-numeric reading
\* each, the second without a timestamp; only readings that do not convert.
Batches ==
    { <<[timestamp |-> isoformat(0), sampledValue |-> <<Reading("10")>>]>>,
      <<[timestamp |-> isoformat(1), sampledValue |-> <<Reading("abc"), Reading("25")>>]>>,
      <<[timestamp |-> isoformat(0), sampledValue |-> <<Reading("10"), Reading("abc")>>],
        [timestamp |-> NoIso, sampledValue |-> <<Reading(NoStr), Reading("25")>>]>>,
      <<[timestamp |-> isoformat(1), sampledValue |-> <<Reading("abc"), Reading(NoStr)>>]>> }

MeterMeterValues ==
    /\ Ready(1)
    /\ \E meter_value \in Batches, transaction_id \in {0, TxIdBase}, err \in 0 .. 2 :
          on_meter_values("CP1", 1, meter_value, transaction_id, err)
MeterStop ==
    /\ Ready(1)
    /\ \E transaction_data \in Batches \cup {<<>>}, err \in 0 .. 2 :
          on_stop_transaction("CP1", TxIdBase, isoformat(1), 1100, NoStr, NoTag,
                              transaction_data, err, FALSE)

NextMeter ==
    \/ AvailResolve \/ AvailLookup \/ AvailGenerate \/ AvailCommit \/ AvailDispatch
    \/ MeterMeterValues \/ MeterStop
SpecMeter == Init /\ [][NextMeter]_vars

\* The texts of the batches that are numbers, and the number each one is.
NumberOf == [v \in {"10", "25"} |-> IF v = "10" THEN 10 ELSE 25]

\* The numbers of the numeric readings of a batch, in the order of the batch.
RECURSIVE NumericReadings(_)
NumericReadings(batch) ==
    IF batch = <<>> THEN <<>>
    ELSE LET values == Head(batch).sampledValue
             numeric == SelectSeq(values, LAMBDA sv : sv.value \in DOMAIN NumberOf)
         IN [i \in 1 .. Len(numeric) |-> NumberOf[numeric[i].value]]
            \o NumericReadings(Tail(batch))

\* The batch of the MeterValues or StopTransaction call that a step handled.
BatchOf(call) ==
    IF call.op = "MeterValues" THEN call.meter_value ELSE call.transaction_data

\* C14: a MeterValues call, and a StopTransaction call with a batch, that no
\* store failure interrupts appends exactly one MeterValue row for each
\* reading whose value is a number, in the order of the batch, skips the
\* other readings, and the handler returns its acknowledgment.
C14_NumericReadingsPersisted ==
    [][(last'.op \in {"MeterValues", "StopTransaction"} /\ ~last'.raised)
        => LET values == NumericReadings(BatchOf(last'))
               before == Len(meterValues)
           IN /\ Len(meterValues') = before + Len(values)
              /\ \A i \in 1 .. before : meterValues'[i] = meterValues[i]
              /\ \A i \in 1 .. Len(values) : meterValues'[before + i].value = values[i]]_vars

\* A MeterValues batch of two entries, each with one numeric reading and one
\* that is not, has stored its two rows.
C14_Witness ==
    /\ last.op = "MeterValues"
    /\ ~last.raised
    /\ Len(last.meter_value) = 2
    /\ Len(meterValues) = 2
    /\ meterValues[1].value = 10
    /\ meterValues[2].value = 25

(***************************************************************************)
(* SpecFail: Heartbeat, MeterValues, StatusNotification and                *)
(* StopTransaction on the connection of CP1, each with and without a       *)
(* failing store call.                                                     *)
(***************************************************************************)
FailBatch == <<[timestamp |-> isoformat(0), sampledValue |-> <<Reading("10")>>]>>

FailBoot == on_boot_notification("CP1", "ACME", FALSE)
FailHeartbeat == \E err \in BOOLEAN : on_heartbeat("CP1", err)
FailMeterValues ==
    /\ Ready(1)
    /\ \E transaction_id \in {0, TxIdBase}, err \in 0 .. 2 :
          on_meter_values("CP1", 1, FailBatch, transaction_id, err)
FailStatus ==
    /\ Ready(1)
    /\ \E connector_id \in {0, 1}, err \in BOOLEAN :
          on_status_notification("CP1", connector_id, "NoError", "Charging", NoIso, err)
FailStop ==
    /\ Ready(1)
    /\ \E transaction_data \in {<<>>, FailBatch}, err \in 0 .. 2 :
          on_stop_transaction("CP1", TxIdBase, isoformat(0), 1100, NoStr, AcceptedTag,
                              transaction_data, err, FALSE)

NextFail ==
    \/ FailBoot \/ StartOffline \/ FailHeartbeat
    \/ AvailResolve \/ AvailLookup \/ AvailGenerate \/ AvailCommit \/ AvailDispatch
    \/ FailMeterValues \/ FailStatus \/ FailStop
SpecFail == Init /\ [][NextFail]_vars

\* A step is a Heartbeat, MeterValues, StatusNotification or StopTransaction
\* call in which a store call raised.
AcknowledgedFailure ==
    \/ last'.op \in {"Heartbeat", "StatusNotification"} /\ last'.err
    \/ last'.op \in {"MeterValues", "StopTransaction"} /\ last'.raised

\* C15: a Heartbeat, MeterValues, StatusNotification or StopTransaction call
\* in which a store call raises still returns its acknowledgment (for
\* Heartbeat with the current time) and leaves every table as it was; the
\* Session of a failed StopTransaction stays Active, and no task is spawned.
C15_FailureAcknowledgedAndRolledBack ==
    [][AcknowledgedFailure
        => /\ store' = store
           /\ jobs' = jobs
           /\ last'.op = "Heartbeat" => last'.current_time = isoformat(now)
           /\ last'.op = "StopTransaction"
                 => \A i \in SessionsWithTxId(last'.transaction_id) :
                       sessions'[i].status = sessions[i].status]_vars

\* The commit of a StopTransaction with a batch raised, for the Active
\* Session of a stored charge point that has a status row.
C15_Witness ==
    /\ last.op = "StopTransaction"
    /\ last.err = 2
    /\ last.transaction_data # <<>>
    /\ \E i \in SessionsWithTxId(last.transaction_id) : sessions[i].status = "Active"
    /\ chargePoints[last.cp].exists
    /\ connectorStatus # <<>>
    /\ meterValues = <<>>

(***************************************************************************)
(* SpecClosed: the five deciding operations on the connection of CP1, each *)
(* with and without a failing store call, in states where the decision     *)
(* without failure is Accepted or Scheduled.                               *)
(***************************************************************************)
ClosedAuthorize ==
    /\ Ready(1)
    /\ \E err \in BOOLEAN : on_authorize("CP1", AcceptedTag, err)
ClosedResolve ==
    /\ sessions = <<>>
    /\ \E err \in BOOLEAN :
          on_start_transaction_resolve(1, "CP1", 1, AcceptedTag, 100, isoformat(0), err)
ClosedLookup == \E err \in BOOLEAN : on_start_transaction_lookup(1, err)
ClosedGenerate == \E err \in BOOLEAN : on_start_transaction_generate(1, TxIdBase, err)
ClosedCommit == \E err \in BOOLEAN : on_start_transaction_commit(1, err)
ClosedRemoteStart ==
    /\ Ready(1)
    /\ \E connector_id \in {NoInt, 1}, tagErr \in BOOLEAN, err \in BOOLEAN :
          on_remote_start_transaction("CP1", AcceptedTag, connector_id, tagErr, err)
ClosedRemoteStop ==
    /\ Ready(1)
    /\ \E err \in BOOLEAN : on_remote_stop_transaction("CP1", TxIdBase, err)
ClosedChange ==
    /\ Ready(1)
    /\ \E type \in {"Operative", "Inoperative"}, err \in BOOLEAN :
          on_change_availability("CP1", 1, type, err)
ClosedAvailabilityJob ==
    \E j \in 1 .. MaxJobs, outcome \in {"ok", "timeout"} :
        send_availability_status_notification(j, outcome)
ClosedStopJob ==
    \E j \in 1 .. MaxJobs, outcome \in {"ok", "timeout"} :
        send_automatic_stop_transaction(j, outcome, 1000)

NextClosed ==
    \/ FailBoot \/ ClosedAuthorize
    \/ ClosedResolve \/ ClosedLookup \/ ClosedGenerate \/ ClosedCommit \/ AvailDispatch
    \/ ClosedRemoteStart \/ ClosedRemoteStop \/ ClosedChange
    \/ ClosedAvailabilityJob \/ ClosedStopJob
SpecClosed == Init /\ [][NextClosed]_vars

\* C16: an Authorize, StartTransaction, RemoteStartTransaction,
\* RemoteStopTransaction or ChangeAvailability call in which a store call
\* raises answers Invalid, respectively Rejected, creates no Session, changes
\* no ConnectorStatus row and spawns no follow-up task.
C16_FailureFailsClosed ==
    [][/\ (last'.op = "Authorize" /\ last'.err)
          => last'.id_tag_info.status = "Invalid"
       /\ (last'.op = "StartTransaction" /\ last'.raised)
          => /\ last'.returned
             /\ task'[last'.task].id_tag_info.status = "Invalid"
             /\ ~task'[last'.task].created
       /\ (last'.op = "RemoteStartTransaction" /\ (last'.tagErr \/ last'.err))
          => last'.status = "Rejected"
       /\ (last'.op \in {"RemoteStopTransaction", "ChangeAvailability"} /\ last'.err)
          => last'.status = "Rejected"
       /\ ( \/ last'.op \in {"Authorize", "RemoteStartTransaction",
                            "RemoteStopTransaction", "ChangeAvailability"}
               /\ last'.err
            \/ last'.op = "RemoteStartTransaction" /\ last'.tagErr
            \/ last'.op = "StartTransaction" /\ last'.raised )
          => /\ jobs' = jobs
             /\ store' = store]_vars

\* The select of a RemoteStopTransaction raised for the Active Session of the
\* calling charge point, which is online; the answer is Rejected.
C16_Witness ==
    /\ last.op = "RemoteStopTransaction"
    /\ last.err
    /\ last.status = "Rejected"
    /\ OwnedActive(last.cp, last.transaction_id) # {}
    /\ IsOnline(last.cp)
    /\ jobs = <<>>

(***************************************************************************)
(* SpecJobs: one charge point with one Session, ChangeAvailability and     *)
(* RemoteStopTransaction calls with and without a failing store call, and  *)
(* up to MaxJobs follow-up tasks running side by side.                     *)
(***************************************************************************)
JobsChange ==
    /\ Ready(1)
    /\ \E connector_id \in {0, 1}, type \in {"Operative", "Inoperative"},
          err \in BOOLEAN :
          on_change_availability("CP1", connector_id, type, err)
JobsRemoteStop ==
    /\ Ready(1)
    /\ on_remote_stop_transaction("CP1", TxIdBase, FALSE)
JobsAvailabilityJob ==
    \E j \in 1 .. MaxJobs, outcome \in {"ok", "timeout"} :
        send_availability_status_notification(j, outcome)
JobsStopJob ==
    \E j \in 1 .. MaxJobs, outcome \in {"ok", "timeout", "unsent"} :
        send_automatic_stop_transaction(j, outcome, 1000)

NextJobs ==
    \/ AvailResolve \/ AvailLookup \/ AvailGenerate \/ AvailCommit \/ AvailDispatch
    \/ JobsChange \/ JobsRemoteStop
    \/ JobsAvailabilityJob \/ JobsStopJob
SpecJobs == Init /\ [][NextJobs]_vars

\* The task this step added to jobs, as a set: empty when it added none.
Spawned == { jobs'[k] : k \in (DOMAIN jobs') \ (DOMAIN jobs) }

\* The step is a call of a follow-up task that put a request on the wire.
Emitted(kind) ==
    /\ last'.op = "Job"
    /\ last'.job.kind = kind
    /\ last'.outcome # "unsent"

\* C17: a follow-up task of ChangeAvailability exists only once the
\* availability of every target connector is in the store: the step that
\* spawns it had no failing store call and leaves the latest row of each
\* target with the requested availability, a call whose store call failed
\* spawns none and changes no row, and every StatusNotification is sent by a
\* task spawned in an earlier step.
C17_JobAfterCommit ==
    [][/\ \A job \in Spawned :
             job.kind = "availability"
             => /\ last'.op = "ChangeAvailability"
                /\ ~last'.err
                /\ last'.status = "Accepted"
                /\ job.sent = <<>>
                /\ \A k \in DOMAIN job.connector_ids :
                      LET i == LatestByCreation(connectorStatus', job.cp,
                                                job.connector_ids[k])
                      IN i # 0 /\ connectorStatus'[i].availability
                                  = job.availability_type
       /\ (last'.op = "ChangeAvailability" /\ last'.err)
          => jobs' = jobs /\ connectorStatus' = connectorStatus
       /\ Emitted("availability")
          => \E j \in DOMAIN jobs :
                /\ jobs[j].kind = "availability"
                /\ last'.job = [jobs[j] EXCEPT !.sent = Append(@, last'.job.sent[Len(last'.job.sent)])]]_vars

\* Two tasks of two ChangeAvailability requests are pending, and the one
\* spawned second has sent a StatusNotification while the first has sent none.
C17_Witness ==
    /\ Len(jobs) = 2
    /\ jobs[1].kind = "availability" /\ jobs[1].sent = <<>>
    /\ jobs[2].kind = "availability" /\ jobs[2].sent # <<>>
    /\ \A k \in DOMAIN jobs[2].connector_ids :
          LatestByCreation(connectorStatus, "CP1", jobs[2].connector_ids[k]) # 0

\* The step is a call that the count of follow-up tasks includes: a
\* RemoteStopTransaction answered Accepted, or a ChangeAvailability answered
\* Accepted that changed a ConnectorStatus row.
SpawningCall ==
    \/ last'.op = "RemoteStopTransaction" /\ last'.status = "Accepted"
    \/ /\ last'.op = "ChangeAvailability"
       /\ last'.status = "Accepted"
       /\ connectorStatus' # connectorStatus

\* C18: every RemoteStopTransaction answered Accepted and every
\* ChangeAvailability answered Accepted that changed availability adds exactly
\* one follow-up task, of its own kind; no other step adds one, and tasks
\* leave only by their own calls. So the tasks spawned over a run are as many
\* as those calls.
C18_OneJobPerAcceptedCall ==
    [][/\ SpawningCall
          => /\ Len(jobs') = Len(jobs) + 1
             /\ SubSeq(jobs', 1, Len(jobs)) = jobs
             /\ jobs'[Len(jobs')].sent = <<>>
             /\ jobs'[Len(jobs')].kind
                = IF last'.op = "ChangeAvailability" THEN "availability"
                  ELSE "remote_stop"
       /\ (~SpawningCall /\ last'.op # "Job") => jobs' = jobs
       /\ last'.op = "Job" => Spawned = {}]_vars

\* A RemoteStopTransaction was answered Accepted while the task of an earlier
\* ChangeAvailability is pending: two tasks after two counted calls.
C18_Witness ==
    /\ last.op = "RemoteStopTransaction"
    /\ last.status = "Accepted"
    /\ Len(jobs) = 2
    /\ jobs[1].kind = "availability"
    /\ jobs[2].kind = "remote_stop"

\* The step is a call of a follow-up task that raised.
FailedCall == last'.op = "Job" /\ last'.outcome # "ok"

\* The task at position j before the step is the one the step was for.
StepOf(j) ==
    \/ last'.job = jobs[j]
    \/ /\ last'.job.sent # <<>>
       /\ last'.job = [jobs[j] EXCEPT !.sent = Append(@, last'.job.sent[Len(last'.job.sent)])]

\* C19: a call of a follow-up task that raises ends the task: the task is
\* gone after the step, so the call is not repeated and the calls after it
\* are not made; the store and the handlers' results are as before. Every
\* request on the wire comes from a task still present, and the
\* StatusNotification of a remote-stop task goes out only from a task whose
\* StopTransaction call has returned.
C19_FailedCallEndsJob ==
    [][/\ FailedCall
          => /\ last'.finished
             /\ \E j \in DOMAIN jobs : StepOf(j) /\ jobs' = WithoutJob(j)
             /\ store' = store
             /\ task' = task
       /\ last'.op = "Job"
          => /\ \E j \in DOMAIN jobs : StepOf(j)
             /\ store' = store
             /\ Len(last'.job.sent) <= IF last'.job.kind = "availability"
                                       THEN Len(last'.job.connector_ids) ELSE 2
       /\ (Emitted("remote_stop")
           /\ last'.job.sent[Len(last'.job.sent)].action = "StatusNotification")
          => /\ Len(last'.job.sent) = 2
             /\ last'.job.sent[1].action = "StopTransaction"
             /\ \E j \in DOMAIN jobs : /\ StepOf(j)
                                       /\ Len(jobs[j].sent) = 1]_vars

\* The StopTransaction call of a remote-stop task was sent and raised: the
\* task is gone without its StatusNotification, the Session the request named
\* is still Active and no other task is pending.
C19_Witness ==
    /\ last.op = "Job"
    /\ last.outcome = "timeout"
    /\ last.job.kind = "remote_stop"
    /\ Len(last.job.sent) = 1
    /\ last.job.sent[1].action = "StopTransaction"
    /\ OwnedActive(last.job.cp, last.job.transaction_id) # {}
    /\ jobs = <<>>

(***************************************************************************)
(* SpecSched: one Session on connector 1 of CP1 from start to stop, with   *)
(* ChangeAvailability calls before, during and after it and the charge     *)
(* point's own StatusNotification for connector 1.                         *)
(***************************************************************************)
SchedStatus ==
    /\ Ready(1)
    /\ on_status_notification("CP1", 1, "NoError", "Charging", NoIso, FALSE)
\* One follow-up task fewer than MaxJobs is pending at a time here.
SchedChange ==
    /\ Ready(1)
    /\ \E connector_id \in {0, 1}, type \in {"Operative", "Inoperative"} :
          on_change_availability("CP1", connector_id, type, FALSE)
    /\ Len(jobs') < MaxJobs
SchedJob ==
    \E j \in 1 .. MaxJobs, outcome \in {"ok", "timeout"} :
        send_availability_status_notification(j, outcome)

NextSched ==
    \/ AvailResolve \/ AvailLookup \/ AvailGenerate \/ AvailCommit \/ AvailDispatch
    \/ AvailStop \/ SchedStatus \/ SchedChange \/ SchedJob
SpecSched == Init /\ [][NextSched]_vars

\* The call answered last was a ChangeAvailability answered Scheduled.
AfterScheduled == last.op = "ChangeAvailability" /\ last.status = "Scheduled"

\* The step is a ChangeAvailability answered Accepted.
AcceptedChange == last'.op = "ChangeAvailability" /\ last'.status = "Accepted"

\* The step leaves the availability recorded last for each connector in
\* targets that has a row as it was.
AvailabilityKept(cp, targets) ==
    \A k \in DOMAIN targets :
        CurrentAvailability(connectorStatus, cp, targets[k]) # NoStr
        => CurrentAvailability(connectorStatus', cp, targets[k])
           = CurrentAvailability(connectorStatus, cp, targets[k])

\* A ChangeAvailability answered Scheduled changes no row and spawns no task,
\* so no StatusNotification is sent for it.
ScheduledDoesNothing ==
    (last'.op = "ChangeAvailability" /\ last'.status = "Scheduled")
    => /\ connectorStatus' = connectorStatus
       /\ jobs' = jobs

\* C20 as stated: a ChangeAvailability answered Scheduled changes nothing
\* and spawns no task, and the step after it, unless it is a ChangeAvailability
\* answered Accepted, leaves the availability recorded last for the target
\* connectors as it was.
C20_ScheduledNeverApplied ==
    [][/\ ScheduledDoesNothing
       /\ (AfterScheduled /\ ~AcceptedChange)
          => AvailabilityKept(last.cp, TargetConnectors(last.connector_id))]_vars

\* C20, the part that holds: a ChangeAvailability answered Scheduled changes
\* nothing and spawns no task, and no step other than a ChangeAvailability
\* answered Accepted or a StatusNotification of the charge point changes the
\* availability recorded last for connector 0 or 1; a StopTransaction that
\* completes the blocking Session does not.
C20_ScheduledNotAppliedByStop ==
    [][/\ ScheduledDoesNothing
       /\ (~AcceptedChange /\ last'.op # "StatusNotification")
          => AvailabilityKept("CP1", <<0, 1>>)
       /\ \A job \in Spawned : AcceptedChange]_vars

\* A ChangeAvailability to Operative was answered Scheduled while connector 1
\* is recorded Inoperative and its Session is Active.
C20_Witness ==
    /\ AfterScheduled
    /\ last.type = "Operative"
    /\ CurrentAvailability(connectorStatus, "CP1", 1) = "Inoperative"
    /\ ActiveOnConnector1("CP1") # {}
    /\ jobs = <<>>

\* Every row of before is at its position in after, but for the availability
\* where sameAvailability is FALSE.
RowsKept(before, after, sameAvailability) ==
    /\ Len(after) >= Len(before)
    /\ \A i \in DOMAIN before :
          IF sameAvailability THEN after[i] = before[i]
          ELSE [after[i] EXCEPT !.availability = before[i].availability] = before[i]

\* C21 as stated: no step modifies or deletes a ConnectorStatus row; rows are
\* only added.
C21_ConnectorStatusAppendOnly ==
    [][RowsKept(connectorStatus, connectorStatus', TRUE)]_vars

\* C21, the part that holds: no step deletes a ConnectorStatus row or changes
\* a field of it other than availability, and only a ChangeAvailability
\* answered Accepted changes the availability of an existing row.
C21_RowsKeptButAvailability ==
    [][/\ RowsKept(connectorStatus, connectorStatus', FALSE)
       /\ ~AcceptedChange => RowsKept(connectorStatus, connectorStatus', TRUE)]_vars

\* An accepted ChangeAvailability to Inoperative has rewritten the row that a
\* StatusNotification of the charge point stored.
C21_Witness ==
    /\ last.op = "ChangeAvailability"
    /\ last.status = "Accepted"
    /\ last.type = "Inoperative"
    /\ \E i \in DOMAIN connectorStatus :
          /\ connectorStatus[i].status = "Charging"
          /\ connectorStatus[i].availability = "Inoperative"

\* C22: every MeterValue row in the store stays at its place with all its
\* fields in every step, and the Session row its session_id names stays the
\* row of the same transaction; rows are only added.
C22_MeterValuesAppendOnly ==
    [][/\ Len(meterValues') >= Len(meterValues)
       /\ \A i \in DOMAIN meterValues :
             /\ meterValues'[i] = meterValues[i]
             /\ meterValues[i].session_id # 0
                => /\ meterValues[i].session_id \in DOMAIN sessions'
                   /\ sessions'[meterValues[i].session_id].transaction_id
                      = sessions[meterValues[i].session_id].transaction_id]_vars

\* A StopTransaction has completed the Session that a row stored by an earlier
\* MeterValues call references.
C22_Witness ==
    /\ last.op = "StopTransaction"
    /\ \E i \in DOMAIN meterValues :
          /\ meterValues[i].session_id # 0
          /\ meterValues[i].context = "Sample.Periodic"
          /\ sessions[meterValues[i].session_id].status = "Completed"

\* C23: in every step each Session row stays in the table with its
\* transaction id and owner; a status changes only from Active to Completed
\* and only in a StopTransaction step; a row is added only by a
\* StartTransaction step and with status Active.
C23_SessionLifecycle ==
    [][/\ Len(sessions') >= Len(sessions)
       /\ \A i \in DOMAIN sessions :
             /\ sessions'[i].transaction_id = sessions[i].transaction_id
             /\ sessions'[i].charge_point_id = sessions[i].charge_point_id
             /\ sessions'[i].status # sessions[i].status
                => /\ sessions[i].status = "Active"
                   /\ sessions'[i].status = "Completed"
                   /\ last'.op = "StopTransaction"
       /\ \A i \in (DOMAIN sessions') \ (DOMAIN sessions) :
             /\ sessions'[i].status = "Active"
             /\ last'.op = "StartTransaction"]_vars

\* A StopTransaction was handled for a Session that is Completed while the
\* other charge point's Session is Active.
C23_Witness ==
    /\ last.op = "StopTransaction"
    /\ ~last.raised
    /\ \E i \in SessionsWithTxId(last.transaction_id) : sessions[i].status = "Completed"
    /\ \E i \in DOMAIN sessions : sessions[i].status = "Active"

\* The Active Sessions with the transaction id that another charge point owns.
ForeignActive(cp, transaction_id) ==
    { i \in SessionsWithTxId(transaction_id) :
        /\ sessions[i].charge_point_id # cp
        /\ sessions[i].status = "Active" }

\* C24: a StopTransaction that no store failure interrupts, handled on the
\* connection of one charge point with the transaction id of an Active
\* Session of another, completes that Session; a RemoteStopTransaction on
\* that connection with that id is answered Rejected, spawns no task and
\* leaves the Session Active.
C24_StopNotScopedByOwner ==
    [][/\ (last'.op = "StopTransaction" /\ ~last'.raised)
          => \A i \in ForeignActive(last'.cp, last'.transaction_id) :
                /\ sessions'[i].status = "Completed"
                /\ sessions'[i].meter_stop = last'.meter_stop
       /\ (last'.op = "RemoteStopTransaction"
           /\ ForeignActive(last'.cp, last'.transaction_id) # {}
           /\ OwnSessionsWithTxId(last'.cp, last'.transaction_id) = {})
          => /\ last'.status = "Rejected"
             /\ jobs' = jobs
             /\ sessions' = sessions]_vars

\* A StopTransaction on the connection of CP1 has completed the Session of
\* CP2, while the Session of CP1 is Active.
C24_Witness ==
    /\ last.op = "StopTransaction"
    /\ last.cp = "CP1"
    /\ \E i \in SessionsWithTxId(last.transaction_id) :
          /\ sessions[i].charge_point_id = "CP2"
          /\ sessions[i].status = "Completed"
          /\ sessions[i].meter_stop = last.meter_stop
    /\ \E i \in DOMAIN sessions :
          sessions[i].charge_point_id = "CP1" /\ sessions[i].status = "Active"

(***************************************************************************)
(* SpecIntake: the StartTransaction handlers of SpecConc while the         *)
(* provisioning side removes the credential they present.                  *)
(***************************************************************************)
\* The IdTag row of a credential is deleted by whoever provisions the table.
RemoveTag(tag) ==
    /\ tag \in idTags
    /\ idTags' = idTags \ {tag}
    /\ last' = [op |-> "RemoveTag", tag |-> tag]
    /\ UNCHANGED <<now, chargePoints, sessions, meterValues, connectorStatus, jobs, task>>

NextIntake == NextConc \/ RemoveTag(AcceptedTag)
SpecIntake == Init /\ [][NextIntake]_vars

\* The step is the IdTag select of the StartTransaction in slot t, and it
\* finds no record although the credential had resolved to Accepted.
VanishedAtLookup(t) ==
    /\ task[t].pc = "lookup"
    /\ last'.op = "StartTransaction"
    /\ last'.task = t
    /\ ~last'.raised
    /\ task[t].resolved.status = "Accepted"
    /\ task[t].id_tag \notin idTags

\* C25: a StartTransaction whose credential resolved to Accepted and whose
\* record is gone when the handler selects it for the write returns
\* idTagInfo status Invalid and transaction id 0 and creates no Session.
C25_VanishedCredentialInvalid ==
    [][\A t \in Tasks :
          VanishedAtLookup(t)
          => /\ task'[t].pc = "returned"
             /\ task'[t].id_tag_info.status = "Invalid"
             /\ task'[t].transaction_id = 0
             /\ ~task'[t].created
             /\ sessions' = sessions]_vars

\* The handler of slot 1 has returned Invalid with id 0 for a credential
\* that had resolved to Accepted and is no longer in the table.
C25_Witness ==
    /\ last.op = "StartTransaction"
    /\ last.task = 1
    /\ ~last.raised
    /\ task[1].pc = "returned"
    /\ task[1].resolved.status = "Accepted"
    /\ task[1].id_tag_info.status = "Invalid"
    /\ task[1].transaction_id = 0
    /\ task[1].id_tag \notin idTags
    /\ \A i \in DOMAIN sessions : sessions[i].charge_point_id # task[1].cp

\* C26: a ChangeAvailability for connector 0 either is answered Accepted and
\* leaves the row recorded last for connector 0 and for connector 1 with the
\* requested availability, or leaves every ConnectorStatus row as it was; a
\* call in which a store call raised is answered Rejected and is of the
\* second kind, whichever of the two writes had been made.
C26_StationChangeAtomic ==
    [][(last'.op = "ChangeAvailability" /\ last'.connector_id = 0)
        => /\ \/ /\ last'.status = "Accepted"
                 /\ CurrentAvailability(connectorStatus', last'.cp, 0) = last'.type
                 /\ CurrentAvailability(connectorStatus', last'.cp, 1) = last'.type
              \/ connectorStatus' = connectorStatus
           /\ last'.err => /\ last'.status = "Rejected"
                           /\ connectorStatus' = connectorStatus]_vars

\* A store call of a ChangeAvailability for connector 0 raised while
\* connector 0 and connector 1 were recorded Operative and Inoperative was
\* requested: both are still recorded Operative.
C26_Witness ==
    /\ last.op = "ChangeAvailability"
    /\ last.connector_id = 0
    /\ last.err
    /\ last.status = "Rejected"
    /\ last.type = "Inoperative"
    /\ CurrentAvailability(connectorStatus, "CP1", 0) = "Operative"
    /\ CurrentAvailability(connectorStatus, "CP1", 1) = "Operative"
    /\ ActiveOnConnector1("CP1") = {}

\* The primary key of the Session with the transaction id, 0 (no reference)
\* when the id is 0 or no Session has it.
OwnerOf(transaction_id) ==
    IF transaction_id = 0 \/ SessionsWithTxId(transaction_id) = {} THEN 0
    ELSE CHOOSE i \in SessionsWithTxId(transaction_id) : TRUE

\* C27: a MeterValues call that no store failure interrupts stores one row
\* for each numeric reading of its batch; the rows carry no Session reference
\* when the call has no transaction id or one that no Session has, and the
\* reference of the Session with that transaction id otherwise.
C27_ReadingsOwnedByLookup ==
    [][(last'.op = "MeterValues" /\ ~last'.raised)
        => /\ Len(meterValues') = Len(meterValues)
                                  + Len(NumericReadings(last'.meter_value))
           /\ \A i \in (DOMAIN meterValues') \ (DOMAIN meterValues) :
                 meterValues'[i].session_id = OwnerOf(last'.transaction_id)]_vars

\* A MeterValues call with a transaction id that no Session has stored its
\* numeric readings without a Session reference.
C27_Witness ==
    /\ last.op = "MeterValues"
    /\ ~last.raised
    /\ last.transaction_id # 0
    /\ SessionsWithTxId(last.transaction_id) = {}
    /\ Len(meterValues) = 2
    /\ \A i \in DOMAIN meterValues : meterValues[i].session_id = 0

(***************************************************************************)
(* SpecConcFair: SpecConc with a fair random.randint: a handler that stays *)
(* in the loop of _generate_transaction_id draws every id of the range     *)
(* again and again.                                                        *)
(***************************************************************************)
SpecConcFair ==
    /\ SpecConc
    /\ \A t \in Tasks, drawn \in TxIds :
          WF_vars(on_start_transaction_generate(t, drawn, FALSE))

\* The ids of the range that no Session has.
FreeIds == { id \in TxIds : SessionsWithTxId(id) = {} }

\* C28: a handler in the loop of _generate_transaction_id leaves it when an
\* id of the range stays free; the id it leaves with is in the range and no
\* Session has it; and while every id of the range is used it stays in the
\* loop.
C28_AllocationTerminatesIffFree ==
    /\ \A t \in Tasks :
          (task[t].pc = "generate" /\ FreeIds # {})
          ~> (task[t].pc # "generate" \/ FreeIds = {})
    /\ [][\A t \in Tasks :
             task[t].pc = "generate"
             => /\ task'[t].pc \in {"generate", "commit"}
                /\ task'[t].pc = "commit"
                   => /\ task'[t].transaction_id \in FreeIds
                      /\ \A i \in DOMAIN sessions' :
                            sessions'[i].transaction_id # task'[t].transaction_id
                /\ FreeIds = {} => task'[t].pc = "generate"]_vars

\* A handler has left the loop with the one id that is still free, the other
\* being used by a Session.
C28_Witness ==
    \E t \in Tasks :
        /\ task[t].pc = "commit"
        /\ FreeIds = {task[t].transaction_id}
        /\ sessions # <<>>

\* The availability recorded last for connector 1 of CP1 is Inoperative: in
\* SpecClosed this holds from a ChangeAvailability(1, Inoperative) answered
\* Accepted until a ChangeAvailability(1, Operative) is answered Accepted.
Gated == CurrentAvailability(connectorStatus, "CP1", 1) = "Inoperative"

\* The step is a StartTransaction on connector 1 that stores an Active Session.
StartsOnConnector1 ==
    /\ last'.op = "StartTransaction"
    /\ Len(sessions') = Len(sessions) + 1
    /\ sessions'[Len(sessions')].connector_id = 1
    /\ sessions'[Len(sessions')].status = "Active"

\* The step is a RemoteStartTransaction naming connector 1 answered Accepted.
RemoteStartAccepted ==
    /\ last'.op = "RemoteStartTransaction"
    /\ last'.connector_id = 1
    /\ last'.status = "Accepted"

\* C29 as stated: while connector 1 is Inoperative by an Accepted
\* ChangeAvailability, no StartTransaction on connector 1 creates an Active
\* Session and no RemoteStartTransaction naming connector 1 is Accepted.
C29_AvailabilityGatesStart ==
    [][Gated => (~StartsOnConnector1 /\ ~RemoteStartAccepted)]_vars

\* C29, the part that holds: the availability recorded last for connector 1
\* becomes Inoperative, and stops being Inoperative, only by a
\* ChangeAvailability answered Accepted, which records the requested type; a
\* RemoteStartTransaction naming connector 1 is Accepted only when the status
\* of the latest row of the connector, if it has one, is Available or Preparing.
C29_AvailabilityRecordedOnly ==
    [][/\ (AcceptedChange /\ last'.connector_id = 1)
          => CurrentAvailability(connectorStatus', "CP1", 1) = last'.type
       /\ Gated' # Gated => AcceptedChange
       /\ RemoteStartAccepted
          => LatestStatuses("CP1", 1) \subseteq {"Available", "Preparing"}]_vars

\* A Session of connector 1 is Active while the connector is recorded
\* Inoperative and no Session existed when it was made Inoperative.
C29_Witness ==
    /\ Gated
    /\ last.op = "StartTransaction" /\ last.returned
    /\ task[last.task].created
    /\ \E i \in DOMAIN sessions :
          /\ sessions[i].connector_id = 1
          /\ sessions[i].status = "Active"

\* The step is the one in which the StartTransaction handler of slot t returns.
StartReturns(t) ==
    /\ last'.op = "StartTransaction"
    /\ last'.returned
    /\ last'.task = t

\* The step stored one Session: Active, of the calling charge point, with the
\* returned transaction id, which lies in the allocation range.
DurablyCreated(t) ==
    /\ Len(sessions') = Len(sessions) + 1
    /\ SubSeq(sessions', 1, Len(sessions)) = sessions
    /\ sessions'[Len(sessions')].transaction_id = task'[t].transaction_id
    /\ sessions'[Len(sessions')].status = "Active"
    /\ sessions'[Len(sessions')].charge_point_id = task'[t].cp
    /\ task'[t].transaction_id \in TxIds

\* C30 as stated: a StartTransaction response carries a nonzero transaction id
\* exactly when the call stored an Active Session of the calling charge point
\* with that id, and carries 0 whenever its idTagInfo status is not Accepted.
C30_IdNonzeroIffCreated ==
    [][\A t \in Tasks :
          StartReturns(t)
          => /\ (task'[t].transaction_id # 0) <=> DurablyCreated(t)
             /\ task'[t].id_tag_info.status # "Accepted"
                => task'[t].transaction_id = 0]_vars

\* C30, the part that holds: a call that stores a Session answers Accepted
\* with the Session's id, which is in the range; a call that stores none
\* leaves the Sessions as they were; and a response that is not Accepted
\* carries 0 unless the commit raised after the id was allocated.
C30_CreatedReturnsItsId ==
    [][\A t \in Tasks :
          StartReturns(t)
          => /\ DurablyCreated(t) \/ sessions' = sessions
             /\ DurablyCreated(t)
                => /\ task'[t].id_tag_info.status = "Accepted"
                   /\ task'[t].transaction_id # 0
             /\ (task'[t].id_tag_info.status # "Accepted" /\ task[t].pc # "commit")
                => task'[t].transaction_id = 0
             /\ task'[t].transaction_id # 0 => task[t].pc = "commit"]_vars

\* A handler has returned Invalid with the id it had allocated, and no
\* Session has that id.
C30_Witness ==
    \E t \in Tasks :
        /\ task[t].pc = "returned"
        /\ task[t].id_tag_info.status = "Invalid"
        /\ task[t].transaction_id \in TxIds
        /\ SessionsWithTxId(task[t].transaction_id) = {}

\* The Active Sessions of a connector of a charge point.
ActiveOn(rows, cp, connector_id) ==
    { i \in DOMAIN rows : /\ rows[i].charge_point_id = cp
                          /\ rows[i].connector_id = connector_id
                          /\ rows[i].status = "Active" }

\* C31 as stated: at most one Session is Active per charge point and
\* connector.
C31_OneActivePerConnector ==
    \A i, j \in DOMAIN sessions :
        ( /\ sessions[i].status = "Active" /\ sessions[j].status = "Active"
          /\ sessions[i].charge_point_id = sessions[j].charge_point_id
          /\ sessions[i].connector_id = sessions[j].connector_id )
        => i = j

\* C31, what the code does instead: a StartTransaction that stores a Session
\* adds one Active Session to its connector however many are Active on it
\* already, and no other step changes the Active Sessions of the connector.
C31_StartAddsActiveUnchecked ==
    [][IF last'.op = "StartTransaction" /\ last'.returned /\ task'[last'.task].created
       THEN Cardinality(ActiveOn(sessions', "CP1", 1))
            = Cardinality(ActiveOn(sessions, "CP1", 1)) + 1
       ELSE ActiveOn(sessions', "CP1", 1) = ActiveOn(sessions, "CP1", 1)]_vars

\* A StartTransaction on connector 1 has returned Accepted while another
\* Session of the connector was Active, and both are Active.
C31_Witness ==
    /\ last.op = "StartTransaction" /\ last.returned
    /\ task[last.task].created
    /\ task[last.task].id_tag_info.status = "Accepted"
    /\ Cardinality(ActiveOn(sessions, "CP1", 1)) = 2

\* The call answered last was a ChangeAvailability answered Accepted.
AfterAccepted == last.op = "ChangeAvailability" /\ last.status = "Accepted"

\* The availability recorded last for every target of a ChangeAvailability
\* on connector_id is type after the step.
TargetsHave(cp, connector_id, type) ==
    \A k \in DOMAIN TargetConnectors(connector_id) :
        CurrentAvailability(connectorStatus', cp, TargetConnectors(connector_id)[k]) = type

\* C32 as stated: a ChangeAvailability answered Accepted leaves its targets
\* with the requested availability, and the operation after it, unless it is
\* a ChangeAvailability answered Accepted, leaves them with it.
C32_AcceptedAvailabilityPersists ==
    [][/\ AcceptedChange => TargetsHave(last'.cp, last'.connector_id, last'.type)
       /\ (AfterAccepted /\ ~AcceptedChange)
          => TargetsHave(last.cp, last.connector_id, last.type)]_vars

\* C32, the part that holds: the accepted availability is recorded and stays
\* across StartTransaction, StopTransaction and the follow-up task; an inbound
\* StatusNotification leaves the connector it names with the availability of
\* a row stored without one.
C32_AvailabilityKeptButByStatus ==
    [][/\ AcceptedChange => TargetsHave(last'.cp, last'.connector_id, last'.type)
       /\ (AfterAccepted /\ ~AcceptedChange /\ last'.op # "StatusNotification")
          => TargetsHave(last.cp, last.connector_id, last.type)
       /\ (last'.op = "StatusNotification" /\ ~last'.err)
          => CurrentAvailability(connectorStatus', last'.cp, last'.connector_id)
             = DefaultAvailability]_vars

\* An inbound StatusNotification for connector 1 was stored after a
\* ChangeAvailability had made the connector Inoperative, and the
\* availability recorded last for it is no longer Inoperative.
C32_Witness ==
    /\ last.op = "StatusNotification"
    /\ CurrentAvailability(connectorStatus, "CP1", 1) # "Inoperative"
    /\ \E i \in DOMAIN connectorStatus :
          /\ connectorStatus[i].connector_id = 1
          /\ connectorStatus[i].availability = "Inoperative"

\* The stop data of a Session row.
StopData(row) ==
    <<row.meter_stop, row.stop_timestamp, row.stop_reason, row.energy_consumed>>

\* The step is a StopTransaction for the id of the Completed Session i.
StopsCompleted(i) ==
    /\ last'.op = "StopTransaction"
    /\ sessions[i].status = "Completed"
    /\ sessions[i].transaction_id = last'.transaction_id

\* C33 as stated: a StopTransaction for the id of a Completed Session leaves
\* the Session's meter stop, stop timestamp, stop reason and energy consumed
\* as they were.
C33_StopDataFinal ==
    [][\A i \in DOMAIN sessions :
          StopsCompleted(i) => StopData(sessions'[i]) = StopData(sessions[i])]_vars

\* C33, what the code does instead: a StopTransaction for the id of a
\* Completed Session that raises nothing writes its own stop data over the
\* Session's, one that raises leaves the row as it was, and in both cases the
\* Session stays Completed and the other Sessions are untouched.
C33_LaterStopOverwrites ==
    [][\A i \in DOMAIN sessions :
          StopsCompleted(i)
          => /\ Len(sessions') = Len(sessions)
             /\ sessions'[i].status = "Completed"
             /\ IF last'.raised THEN sessions'[i] = sessions[i]
                ELSE sessions'[i]
                     = StoppedSession(sessions[i], last'.meter_stop,
                                      parse_ocpp_timestamp(last'.timestamp),
                                      GetOr(last'.reason, "Local"))
             /\ \A j \in DOMAIN sessions : j # i => sessions'[j] = sessions[j]]_vars

\* A StopTransaction with meter stop 1100 and reason EVDisconnected has been
\* answered for the id of a Session, which is Completed and carries that data.
C33_Witness ==
    /\ last.op = "StopTransaction" /\ ~last.raised
    /\ last.meter_stop = 1100 /\ last.reason = "EVDisconnected"
    /\ \E i \in DOMAIN sessions :
          /\ sessions[i].transaction_id = last.transaction_id
          /\ sessions[i].status = "Completed"
          /\ sessions[i].meter_stop = 1100
          /\ sessions[i].stop_reason = "EVDisconnected"

\* The step is a RemoteStopTransaction, with no failing store call, for the
\* id of an Active Session of the calling charge point.
RemoteStopOfActive ==
    /\ last'.op = "RemoteStopTransaction"
    /\ ~last'.err
    /\ OwnedActive(last'.cp, last'.transaction_id) # {}

\* C34: a RemoteStopTransaction and the steps of its follow-up task change
\* nothing in the store; an Active Session stays Active in every step but an
\* inbound StopTransaction; and every RemoteStopTransaction for the id of an
\* Active Session of the caller, a first one or a repeated one, is answered
\* Accepted and adds one task for that id, leaving the pending tasks as they
\* are.
C34_RemoteStopLeavesStore ==
    [][/\ last'.op \in {"RemoteStopTransaction", "Job"} => store' = store
       /\ \A i \in DOMAIN sessions :
             (sessions[i].status = "Active" /\ last'.op # "StopTransaction")
             => sessions'[i].status = "Active"
       /\ RemoteStopOfActive
          => /\ last'.status = "Accepted"
             /\ Len(jobs') = Len(jobs) + 1
             /\ SubSeq(jobs', 1, Len(jobs)) = jobs
             /\ jobs'[Len(jobs')].kind = "remote_stop"
             /\ jobs'[Len(jobs')].transaction_id = last'.transaction_id
             /\ jobs'[Len(jobs')].sent = <<>>]_vars

\* A second RemoteStopTransaction for one transaction was answered Accepted
\* while the task of the first is pending and has sent its StopTransaction
\* request: two tasks for the id exist and the Session is still Active.
C34_Witness ==
    /\ last.op = "RemoteStopTransaction" /\ last.status = "Accepted"
    /\ Len(jobs) = 2
    /\ jobs[1].kind = "remote_stop" /\ jobs[2].kind = "remote_stop"
    /\ jobs[1].transaction_id = last.transaction_id
    /\ jobs[2].transaction_id = last.transaction_id
    /\ jobs[1].sent # <<>>
    /\ OwnedActive(last.cp, last.transaction_id) # {}
====
